---- MODULE Spec2Model ----
(***************************************************************************)
(* Multi-AI Business Consultant: the structured-output recovery            *)
(* (extract_json, validate_and_fix_json), the six stage agents, the        *)
(* generation client, the report stitcher and the orchestrator/main run.   *)
(*                                                                         *)
(* Representation.  A Python/JSON value is a record [k, s, e, d]:          *)
(*   k  the kind: "null" (None), "bool", "num", "str", "list", "dict",     *)
(*      "undef" (pydantic's PydanticUndefined sentinel), "model" (an       *)
(*      instance of a schema class);                                       *)
(*   s  the characters of a string / number / boolean, as a sequence of    *)
(*      chunks (a chunk is one lexical token of text);                     *)
(*   e  the elements of a list;                                            *)
(*   d  the items of a dict or the fields of a model instance.             *)
(* A text is a sequence of chunks: "{" "}" "[" "]" "," ":" the quote, the  *)
(* fence of a code block, the tag json, white space, and word chunks.      *)
(*                                                                         *)
(* main is followed from its first prompt to its exit; the operator's      *)
(* interrupt (Ctrl-C) is left out.                                         *)
(***************************************************************************)
EXTENDS Integers, Sequences, FiniteSets, TLC

\* ------------------------------------------------------------------------
\* Values
\* ------------------------------------------------------------------------
NoMap == [x \in {} |-> x]
Null == [k |-> "null", s |-> <<>>, e |-> <<>>, d |-> NoMap]
Undefined == [k |-> "undef", s |-> <<>>, e |-> <<>>, d |-> NoMap]
Str(s) == [k |-> "str", s |-> s, e |-> <<>>, d |-> NoMap]
Num(s) == [k |-> "num", s |-> s, e |-> <<>>, d |-> NoMap]
Bool(s) == [k |-> "bool", s |-> s, e |-> <<>>, d |-> NoMap]
List(e) == [k |-> "list", s |-> <<>>, e |-> e, d |-> NoMap]
Dict(d) == [k |-> "dict", s |-> <<>>, e |-> <<>>, d |-> d]
Model(d) == [k |-> "model", s |-> <<>>, e |-> <<>>, d |-> d]
S(w) == Str(<<w>>)
EmptyStr == Str(<<>>)
EmptyList == List(<<>>)
EmptyDict == Dict(NoMap)

\* Python truth value of a value (bool(v)).
Truthy(v) ==
  CASE v.k = "null" -> FALSE
    [] v.k = "bool" -> v.s = <<"true">>
    [] v.k = "num" -> v.s # <<"0">>
    [] v.k = "str" -> v.s # <<>>
    [] v.k = "list" -> v.e # <<>>
    [] v.k = "dict" -> DOMAIN v.d # {}
    [] OTHER -> TRUE

\* The outcome of a call: a returned value, or a raised exception.
Return(v) == [raised |-> FALSE, exc |-> "", val |-> v]
Raise(x) == [raised |-> TRUE, exc |-> x, val |-> Null]

\* ------------------------------------------------------------------------
\* Text and the JSON grammar (json.loads)
\* ------------------------------------------------------------------------
LBrace == "{"
RBrace == "}"
LBrack == "["
RBrack == "]"
Comma == ","
Colon == ":"
Quote == "\""
\* The three-backquote fence of a code block, as one chunk.
Fence == "<fence>"
Tag == "json"
WS == " "
Numbers == {"0", "1"}

Min(a, b) == IF a < b THEN a ELSE b

\* Index of the first chunk at or after i that is not white space
\* (Len(t) + 1 when there is none).
RECURSIVE SkipWs(_, _)
SkipWs(t, i) ==
  IF i > Len(t) THEN Len(t) + 1
  ELSE IF t[i] = WS THEN SkipWs(t, i + 1) ELSE i

\* Index of the last chunk at or before i that is not white space (0 if none).
RECURSIVE SkipWsBack(_, _)
SkipWsBack(t, i) ==
  IF i < 1 THEN 0
  ELSE IF t[i] = WS THEN SkipWsBack(t, i - 1) ELSE i

\* str.strip()
Strip(t) == SubSeq(t, SkipWs(t, 1), SkipWsBack(t, Len(t)))

\* Index of the first quote at or after i (0 when there is none).
RECURSIVE FindQuote(_, _)
FindQuote(t, i) ==
  IF i > Len(t) THEN 0
  ELSE IF t[i] = Quote THEN i ELSE FindQuote(t, i + 1)

NoParse == [ok |-> FALSE, val |-> Null, next |-> 0]
Parsed(v, n) == [ok |-> TRUE, val |-> v, next |-> n]

\* A string literal starting at the quote t[i].
ParseString(t, i) ==
  LET Closed(j) == IF j = 0 THEN NoParse ELSE Parsed(Str(SubSeq(t, i + 1, j - 1)), j + 1)
  IN IF i > Len(t) \/ t[i] # Quote THEN NoParse ELSE Closed(FindQuote(t, i + 1))

\* The key a string literal denotes (keys are one chunk long in every text
\* considered; the empty literal denotes the empty key).
KeyOf(v) == IF v.s = <<>> THEN "" ELSE v.s[1]

PutItem(d, key, v) == [x \in DOMAIN d \cup {key} |-> IF x = key THEN v ELSE d[x]]

RECURSIVE ParseValue(_, _), ParseMembers(_, _, _), ParseElems(_, _, _)
\* One JSON value starting at or after t[i], white space skipped.
ParseValue(t, i) ==
  LET Object(m) ==
        IF m <= Len(t) /\ t[m] = RBrace THEN Parsed(EmptyDict, m + 1)
        ELSE ParseMembers(t, m, NoMap)
      Array(m) ==
        IF m <= Len(t) /\ t[m] = RBrack THEN Parsed(EmptyList, m + 1)
        ELSE ParseElems(t, m, <<>>)
      At(j) ==
        IF j > Len(t) THEN NoParse
        ELSE CASE t[j] = LBrace -> Object(SkipWs(t, j + 1))
               [] t[j] = LBrack -> Array(SkipWs(t, j + 1))
               [] t[j] = Quote -> ParseString(t, j)
               [] t[j] = "null" -> Parsed(Null, j + 1)
               [] t[j] \in {"true", "false"} -> Parsed(Bool(<<t[j]>>), j + 1)
               [] t[j] \in Numbers -> Parsed(Num(<<t[j]>>), j + 1)
               [] OTHER -> NoParse
  IN At(SkipWs(t, i))

\* The members of an object from t[i] on, up to and including the closing
\* brace; a repeated key keeps its last value.
ParseMembers(t, i, acc) ==
  LET After(a, d) ==
        IF a > Len(t) THEN NoParse
        ELSE IF t[a] = Comma THEN ParseMembers(t, a + 1, d)
        ELSE IF t[a] = RBrace THEN Parsed(Dict(d), a + 1)
        ELSE NoParse
      Member(key, v) ==
        IF ~v.ok THEN NoParse
        ELSE After(SkipWs(t, v.next), PutItem(acc, KeyOf(key.val), v.val))
      Value(key, c) ==
        IF c > Len(t) \/ t[c] # Colon THEN NoParse ELSE Member(key, ParseValue(t, c + 1))
      Key(key) == IF ~key.ok THEN NoParse ELSE Value(key, SkipWs(t, key.next))
  IN Key(ParseString(t, SkipWs(t, i)))

\* The elements of an array from t[i] on, up to and including the closing
\* bracket.
ParseElems(t, i, acc) ==
  LET After(a, elems) ==
        IF a > Len(t) THEN NoParse
        ELSE IF t[a] = Comma THEN ParseElems(t, a + 1, elems)
        ELSE IF t[a] = RBrack THEN Parsed(List(elems), a + 1)
        ELSE NoParse
      Elem(v) == IF ~v.ok THEN NoParse ELSE After(SkipWs(t, v.next), Append(acc, v.val))
  IN Elem(ParseValue(t, i))

\* json.loads(t): the value of the whole text, or JSONDecodeError.
json_loads(t) ==
  LET Whole(r) ==
        IF r.ok /\ SkipWs(t, r.next) > Len(t) THEN Return(r.val) ELSE Raise("JSONDecodeError")
  IN Whole(ParseValue(t, 1))

\* ------------------------------------------------------------------------
\* extract_json
\* ------------------------------------------------------------------------
\* Index of the first closing brace q > p that is followed by optional white
\* space and a fence (0 when there is none): the lazy group (\{.*?\})\s*FENCE.
RECURSIVE FenceClose(_, _)
FenceClose(t, q) ==
  IF q > Len(t) THEN 0
  ELSE IF t[q] = RBrace /\ SkipWs(t, q + 1) <= Len(t) /\ t[SkipWs(t, q + 1)] = Fence
       THEN q
       ELSE FenceClose(t, q + 1)

\* FenceMatchAt matching only a block that carries the language tag.
FenceMatchAt_TagOnly(t, i) ==
  LET Group(p, q) == IF q = 0 THEN <<>> ELSE SubSeq(t, p, q)
      Open(p) == IF p > Len(t) \/ t[p] # LBrace THEN <<>> ELSE Group(p, FenceClose(t, p + 1))
  IN IF i + 1 > Len(t) \/ t[i] # Fence \/ t[i + 1] # Tag THEN <<>>
     ELSE Open(SkipWs(t, i + 2))

\* The group captured by FENCE(?:json)?\s*(\{.*?\})\s*FENCE when the match starts
\* at the fence t[i]; <<>> when there is no match there.
FenceMatchAt(t, i) ==
  LET Group(p, q) == IF q = 0 THEN <<>> ELSE SubSeq(t, p, q)
      Open(p) == IF p > Len(t) \/ t[p] # LBrace THEN <<>> ELSE Group(p, FenceClose(t, p + 1))
  IN IF i > Len(t) \/ t[i] # Fence THEN <<>>
     ELSE Open(SkipWs(t, IF i + 1 <= Len(t) /\ t[i + 1] = Tag THEN i + 2 ELSE i + 1))

\* matches[0] of re.findall on the fenced-block pattern (<<>> when no match).
RECURSIVE FirstFenceMatch(_, _)
FirstFenceMatch(t, i) ==
  LET Or(m) == IF m # <<>> THEN m ELSE FirstFenceMatch(t, i + 1)
  IN IF i > Len(t) THEN <<>> ELSE Or(FenceMatchAt(t, i))

\* End of the match of \{[^{}]*(?:\{[^{}]*\}[^{}]*)*\} whose opening brace is
\* just before t[j]; depth is 1 inside an inner pair.  0 when it fails.
RECURSIVE BraceWalk(_, _, _)
BraceWalk(t, j, depth) ==
  IF j > Len(t) THEN 0
  ELSE IF t[j] = LBrace THEN (IF depth = 0 THEN BraceWalk(t, j + 1, 1) ELSE 0)
  ELSE IF t[j] = RBrace THEN (IF depth = 1 THEN BraceWalk(t, j + 1, 0) ELSE j)
  ELSE BraceWalk(t, j + 1, depth)

\* re.findall of the brace pattern: the non-overlapping matches, left to right.
RECURSIVE BraceMatches(_, _)
BraceMatches(t, i) ==
  LET From(end) ==
        IF end # 0 THEN <<SubSeq(t, i, end)>> \o BraceMatches(t, end + 1)
        ELSE BraceMatches(t, i + 1)
  IN IF i > Len(t) THEN <<>>
     ELSE From(IF t[i] = LBrace THEN BraceWalk(t, i + 1, 0) ELSE 0)

\* The loop over the brace matches: the first one that parses, else None.
RECURSIVE FirstParsing(_)
FirstParsing(ms) ==
  LET Or(r) == IF ~r.raised THEN r ELSE FirstParsing(Tail(ms))
  IN IF ms = <<>> THEN Return(Null) ELSE Or(json_loads(Head(ms)))

\* extract_json consulting the brace scan before the fenced block.
extract_json_BracesFirst(text) ==
  IF text.k # "str" THEN Raise("AttributeError")
  ELSE LET InBlock(block) ==
             LET Fenced(fenced) ==
                   IF block # <<>> /\ ~fenced.raised THEN fenced ELSE Return(Null)
             IN Fenced(json_loads(block))
           InBraces(found) ==
             IF found.val # Null THEN found ELSE InBlock(FirstFenceMatch(text.s, 1))
           Whole(whole) ==
             IF ~whole.raised THEN whole ELSE InBraces(FirstParsing(BraceMatches(text.s, 1)))
       IN Whole(json_loads(Strip(text.s)))

\* extract_json(text); text is a str value or None.
extract_json(text) ==
  IF text.k # "str" THEN Raise("AttributeError")
  ELSE LET InBraces == FirstParsing(BraceMatches(text.s, 1))
           InBlock(block) ==
             LET Fenced(fenced) == IF block # <<>> /\ ~fenced.raised THEN fenced ELSE InBraces
             IN Fenced(json_loads(block))
           Whole(whole) ==
             IF ~whole.raised THEN whole ELSE InBlock(FirstFenceMatch(text.s, 1))
       IN Whole(json_loads(Strip(text.s)))

\* ------------------------------------------------------------------------
\* Schemas (pydantic models) and their construction
\* ------------------------------------------------------------------------
\* FieldInfo of a field: its annotation and its default; pydantic stores
\* PydanticUndefined, never the Ellipsis object, as the default of a required
\* field, and none of the fields has a default_factory.
Ellipsis == [k |-> "ellipsis", s |-> <<>>, e |-> <<>>, d |-> NoMap]
Field(n, a) == [name |-> n, annotation |-> a, default |-> Undefined, default_factory |-> FALSE]
FieldD(n, a, dflt) == [name |-> n, annotation |-> a, default |-> dflt, default_factory |-> FALSE]

DiscoveryOutput ==
  << Field("problem_statement", "str"),
     Field("key_assumptions", "List[str]"),
     Field("facts_gathered", "List[str]"),
     Field("questions_clarified", "List[str]"),
     Field("business_model", "str"),
     Field("target_market", "str") >>

MarketAnalysis ==
  << Field("competitors", "List[Dict[str, Any]]"),
     Field("competitor_map", "Dict[str, Any]"),
     Field("differentiation_opportunities", "List[str]"),
     Field("positioning_strategy", "str"),
     FieldD("market_size", "Optional[str]", Null),
     FieldD("market_trends", "List[str]", EmptyList) >>

StrategyOutput ==
  << Field("strategic_options", "List[Dict[str, Any]]"),
     Field("tradeoffs", "Dict[str, Any]"),
     Field("recommendation", "str"),
     Field("rationale", "str"),
     Field("success_metrics", "List[str]") >>

ExecutionPlan ==
  << Field("plan_30_days", "List[Dict[str, str]]"),
     Field("plan_60_days", "List[Dict[str, str]]"),
     Field("plan_90_days", "List[Dict[str, str]]"),
     Field("process_improvements", "List[str]"),
     Field("org_changes", "List[str]"),
     Field("resource_requirements", "Dict[str, Any]") >>

FinancialModel ==
  << Field("unit_economics", "Dict[str, Any]"),
     Field("pricing_strategy", "str"),
     Field("revenue_projections", "Dict[str, Any]"),
     Field("cost_structure", "Dict[str, Any]"),
     Field("roi_model", "Dict[str, Any]"),
     Field("break_even_analysis", "Dict[str, Any]") >>

RiskAnalysis ==
  << Field("risks", "List[Dict[str, Any]]"),
     Field("mitigations", "List[Dict[str, Any]]"),
     Field("compliance_flags", "List[str]"),
     Field("legal_considerations", "List[str]") >>

KPIMetrics ==
  << Field("revenue_metrics", "Dict[str, Any]"),
     Field("operational_metrics", "Dict[str, Any]"),
     Field("customer_metrics", "Dict[str, Any]"),
     Field("financial_metrics", "Dict[str, Any]"),
     Field("targets", "Dict[str, Any]") >>

StageSchemas ==
  {DiscoveryOutput, MarketAnalysis, StrategyOutput, ExecutionPlan, FinancialModel, RiskAnalysis}

ClientInput ==
  << Field("business", "str"),
     Field("industry", "str"),
     Field("goal", "str"),
     Field("constraints", "str"),
     FieldD("additional_context", "Optional[str]", Null) >>

\* schema.model_fields: the names of the declared fields.
model_fields(schema) == {schema[i].name : i \in 1..Len(schema)}
FieldOf(schema, n) == schema[CHOOSE i \in 1..Len(schema) : schema[i].name = n]

\* annotation.__origin__ ("" when the annotation has none) and __args__.
Origin(a) ==
  CASE a \in {"List[str]", "List[Dict[str, Any]]", "List[Dict[str, str]]"} -> "list"
    [] a = "Dict[str, Any]" -> "dict"
    [] a = "Optional[str]" -> "Union"
    [] OTHER -> ""
Args(a) ==
  CASE a = "List[str]" -> {"str"}
    [] a = "List[Dict[str, Any]]" -> {"Dict[str, Any]"}
    [] a = "List[Dict[str, str]]" -> {"Dict[str, str]"}
    [] a = "Dict[str, Any]" -> {"str", "Any"}
    [] a = "Optional[str]" -> {"str", "NoneType"}
    [] OTHER -> {}

\* pydantic's (lax) validation of a value against an annotation.
Validates(a, v) ==
  CASE a = "str" -> v.k = "str"
    [] a = "Optional[str]" -> v.k \in {"null", "str"}
    [] a = "Dict[str, Any]" -> v.k = "dict"
    [] a = "List[str]" -> v.k = "list" /\ \A i \in 1..Len(v.e) : v.e[i].k = "str"
    [] a = "List[Dict[str, Any]]" -> v.k = "list" /\ \A i \in 1..Len(v.e) : v.e[i].k = "dict"
    [] a = "List[Dict[str, str]]" ->
         v.k = "list" /\ \A i \in 1..Len(v.e) :
            v.e[i].k = "dict" /\ \A x \in DOMAIN v.e[i].d : v.e[i].d[x].k = "str"
    [] OTHER -> FALSE

\* schema(**data): TypeError when data is not a mapping, ValidationError when
\* a required field is missing or a present field does not validate;
\* otherwise the instance, extra keys ignored, defaults filled in.
Construct(schema, data) ==
  IF data.k # "dict" THEN Raise("TypeError")
  ELSE IF \E i \in 1..Len(schema) :
            IF schema[i].name \in DOMAIN data.d
            THEN ~Validates(schema[i].annotation, data.d[schema[i].name])
            ELSE schema[i].default = Undefined
       THEN Raise("ValidationError")
       ELSE Return(Model([n \in model_fields(schema) |->
              IF n \in DOMAIN data.d THEN data.d[n] ELSE FieldOf(schema, n).default]))

\* ------------------------------------------------------------------------
\* validate_and_fix_json and _fix_common_issues
\* ------------------------------------------------------------------------
RECURSIVE Repr(_), ReprSeq(_), ReprItems(_, _)
\* repr(v) as chunks.
Repr(v) ==
  CASE v.k = "null" -> <<"None">>
    [] v.k = "bool" -> IF v.s = <<"true">> THEN <<"True">> ELSE <<"False">>
    [] v.k = "num" -> v.s
    [] v.k = "str" -> <<"'">> \o v.s \o <<"'">>
    [] v.k = "list" -> <<"[">> \o ReprSeq(v.e) \o <<"]">>
    [] v.k = "dict" -> <<"{">> \o ReprItems(v.d, DOMAIN v.d) \o <<"}">>
    [] OTHER -> <<"PydanticUndefined">>
ReprSeq(e) ==
  IF e = <<>> THEN <<>>
  ELSE IF Len(e) = 1 THEN Repr(e[1])
  ELSE Repr(e[1]) \o <<", ">> \o ReprSeq(Tail(e))
ReprItems(d, keys) ==
  IF keys = {} THEN <<>>
  ELSE LET x == CHOOSE y \in keys : TRUE
       IN <<"'", x, "'", ": ">> \o Repr(d[x])
            \o (IF keys = {x} THEN <<>> ELSE <<", ">> \o ReprItems(d, keys \ {x}))

\* str(v)
ToStr(v) == IF v.k = "str" THEN v ELSE Str(Repr(v))

\* First loop of _fix_common_issues: the value given to an absent field.
FillAbsent(f) ==
  IF f.default # Ellipsis THEN <<TRUE, f.default>>
  ELSE IF f.default_factory THEN <<TRUE, Undefined>>
  ELSE IF f.annotation = "str" \/ (Origin(f.annotation) # "" /\ "str" \in Args(f.annotation))
       THEN <<TRUE, EmptyStr>>
  ELSE IF Origin(f.annotation) = "list" THEN <<TRUE, EmptyList>>
  ELSE IF Origin(f.annotation) = "dict" THEN <<TRUE, EmptyDict>>
  ELSE <<FALSE, Null>>

\* The conversion wrapping every value that is not a list, falsy or not.
ConvertValue_WrapFalsy(f, value) ==
  LET a == f.annotation
      afterList == IF Origin(a) = "list" /\ value.k # "list" THEN List(<<value>>) ELSE value
  IN IF Origin(a) # "" /\ "NoneType" \in Args(a) /\ (Args(a) \ {"NoneType"}) # {}
          /\ value.k # "str" /\ value.k # "null"
     THEN ToStr(value)
     ELSE afterList

\* The conversion putting the default in place of an optional field's value
\* of another type.
ConvertValue_DefaultOptional(f, value) ==
  LET a == f.annotation
      afterList == IF Origin(a) = "list" /\ value.k # "list"
                   THEN (IF Truthy(value) THEN List(<<value>>) ELSE EmptyList)
                   ELSE value
  IN IF Origin(a) # "" /\ "NoneType" \in Args(a) /\ (Args(a) \ {"NoneType"}) # {}
          /\ value.k # "str" /\ value.k # "null"
     THEN f.default
     ELSE afterList

\* Second loop of _fix_common_issues: the conversion of a present value.
ConvertValue(f, value) ==
  LET a == f.annotation
      afterList == IF Origin(a) = "list" /\ value.k # "list"
                   THEN (IF Truthy(value) THEN List(<<value>>) ELSE EmptyList)
                   ELSE value
  IN IF Origin(a) # "" /\ "NoneType" \in Args(a) /\ (Args(a) \ {"NoneType"}) # {}
          /\ value.k # "str" /\ value.k # "null"
     THEN ToStr(value)
     ELSE afterList

_fix_common_issues(data, schema) ==
  LET filled == [n \in DOMAIN data.d
                      \cup {m \in model_fields(schema) : FillAbsent(FieldOf(schema, m))[1]} |->
                   IF n \in DOMAIN data.d THEN data.d[n] ELSE FillAbsent(FieldOf(schema, n))[2]]
  IN Dict([n \in DOMAIN filled |->
             IF n \in model_fields(schema) THEN ConvertValue(FieldOf(schema, n), filled[n])
             ELSE filled[n]])

\* The data of the last attempt: only the keys the schema declares.
DeclaredOnly(data, schema) ==
  Dict([n \in DOMAIN data.d \cap model_fields(schema) |-> data.d[n]])

validate_and_fix_json(data, schema, strict) ==
  LET first == Construct(schema, data)
      second == Construct(schema, _fix_common_issues(data, schema))
  IN IF ~first.raised THEN first
     ELSE IF first.exc # "ValidationError" THEN first
     ELSE IF strict THEN first
     ELSE IF ~second.raised THEN second
     ELSE Construct(schema, DeclaredOnly(data, schema))

\* The number of construction attempts validate_and_fix_json makes.
Attempts(data, schema, strict) ==
  IF ~Construct(schema, data).raised \/ Construct(schema, data).exc # "ValidationError" \/ strict
  THEN 1
  ELSE IF ~Construct(schema, _fix_common_issues(data, schema)).raised THEN 2 ELSE 3

\* ------------------------------------------------------------------------
\* QwenLLM: the generation client
\* ------------------------------------------------------------------------
\* The outcomes _setup_client can leave behind: Ollama selected, the remote
\* API selected, or no client at all.
SetupOutcomes ==
  { [use_ollama |-> TRUE, use_api |-> TRUE, client |-> TRUE],
    [use_ollama |-> FALSE, use_api |-> TRUE, client |-> TRUE],
    [use_ollama |-> FALSE, use_api |-> FALSE, client |-> FALSE] }

\* What the network does to one request: it fails, or it answers with a
\* content (a str, or None).
Fails == [failed |-> TRUE, content |-> Null]
Answers(c) == [failed |-> FALSE, content |-> c]

\* A request as it leaves the client, with what became of it.
Request(backend, json_mode, net) ==
  [ backend |-> backend,
    response_format |-> backend = "api" /\ json_mode,
    instruction |-> backend = "local" /\ json_mode,
    failed |-> net.failed ]

\* _generate_local swallowing a failed request into an empty answer.
_generate_local_Swallow(json_mode, local) ==
  [ requests |-> <<Request("local", json_mode, local)>>,
    result |-> IF local.failed THEN Return(EmptyStr) ELSE Return(local.content) ]

\* _generate_local leaving the JSON instruction out of the prompt.
_generate_local_NoInstruction(json_mode, local) ==
  [ requests |-> <<Request("local", FALSE, local)>>,
    result |-> IF local.failed THEN Raise("TransportError") ELSE Return(local.content) ]

\* _generate_local: one POST to the Ollama endpoint; every failure is re-raised.
_generate_local(json_mode, local) ==
  [ requests |-> <<Request("local", json_mode, local)>>,
    result |-> IF local.failed THEN Raise("TransportError") ELSE Return(local.content) ]

\* _generate_api: one chat completion; on any failure, falls back to
\* _generate_local.
_generate_api(json_mode, api, local) ==
  IF api.failed
  THEN [ requests |-> <<Request("api", json_mode, api)>>
                        \o _generate_local(json_mode, local).requests,
         result |-> _generate_local(json_mode, local).result ]
  ELSE [ requests |-> <<Request("api", json_mode, api)>>, result |-> Return(api.content) ]

\* QwenLLM.generate
generate(llm, json_mode, api, local) ==
  IF llm.use_ollama THEN _generate_local(json_mode, local)
  ELSE IF llm.use_api /\ llm.client THEN _generate_api(json_mode, api, local)
  ELSE _generate_local(json_mode, local)

\* ------------------------------------------------------------------------
\* The six stage agents
\* ------------------------------------------------------------------------
\* The length of the response prefix DiscoveryAgent._parse_fallback keeps.
FallbackPrefix == 200

\* AnalyzeTail with the except clause building its output from the fallback
\* mapping.
AnalyzeTail_FallbackOnError(response, schema, fallback, minimal) ==
  LET Caught(validated) == IF validated.raised THEN Construct(schema, fallback) ELSE validated
      Tail_(extracted) ==
        IF extracted.raised THEN extracted
        ELSE Caught(validate_and_fix_json(
                      IF ~Truthy(extracted.val) THEN fallback ELSE extracted.val, schema, FALSE))
  IN Tail_(extract_json(response))

\* AnalyzeTail replacing by the fallback mapping only an extraction that
\* returned None.
AnalyzeTail_NoneOnly(response, schema, fallback, minimal) ==
  LET Caught(validated) == IF validated.raised THEN Construct(schema, minimal) ELSE validated
      Tail_(extracted) ==
        IF extracted.raised THEN extracted
        ELSE Caught(validate_and_fix_json(
                      IF extracted.val = Null THEN fallback ELSE extracted.val, schema, FALSE))
  IN Tail_(extract_json(response))

\* AnalyzeTail with the except clause left out: the validator's exception
\* leaves analyze.
AnalyzeTail_NoCatch(response, schema, fallback, minimal) ==
  LET Tail_(extracted) ==
        IF extracted.raised THEN extracted
        ELSE validate_and_fix_json(IF ~Truthy(extracted.val) THEN fallback ELSE extracted.val,
                                   schema, FALSE)
  IN Tail_(extract_json(response))

\* The tail every analyze shares: extract, replace a falsy result by the
\* fallback mapping, validate, and on any exception build the minimal output.
AnalyzeTail(response, schema, fallback, minimal) ==
  LET Caught(validated) == IF validated.raised THEN Construct(schema, minimal) ELSE validated
      Tail_(extracted) ==
        IF extracted.raised THEN extracted
        ELSE Caught(validate_and_fix_json(
                      IF ~Truthy(extracted.val) THEN fallback ELSE extracted.val, schema, FALSE))
  IN Tail_(extract_json(response))

DiscoveryAgent_parse_fallback(text) ==
  Dict( "problem_statement" :> (IF Truthy(text)
                                THEN Str(SubSeq(text.s, 1, Min(FallbackPrefix, Len(text.s))))
                                ELSE S("Problem to be clarified"))
     @@ "key_assumptions" :> EmptyList
     @@ "facts_gathered" :> (IF Truthy(text) THEN List(<<text>>) ELSE EmptyList)
     @@ "questions_clarified" :> EmptyList
     @@ "business_model" :> S("To be determined")
     @@ "target_market" :> S("To be determined") )

DiscoveryAgent_analyze(client_input, response) ==
  AnalyzeTail(response, DiscoveryOutput,
    DiscoveryAgent_parse_fallback(response),
    Dict( "problem_statement" :> client_input.d["goal"]
       @@ "key_assumptions" :> EmptyList
       @@ "facts_gathered" :> List(<<client_input.d["business"], client_input.d["industry"]>>)
       @@ "questions_clarified" :> EmptyList
       @@ "business_model" :> client_input.d["business"]
       @@ "target_market" :> S("To be determined") ))

MarketAgent_parse_fallback(client_input, discovery) ==
  Dict( "competitors" :> EmptyList
     @@ "competitor_map" :> EmptyDict
     @@ "differentiation_opportunities" :>
          List(<< Str(<<"Focus on ">> \o client_input.d["industry"].s \o <<" expertise">>),
                  S("Leverage unique business model") >>)
     @@ "positioning_strategy" :>
          Str(<<"Position as a ">> \o discovery.d["business_model"].s \o <<" in ">>
                \o client_input.d["industry"].s)
     @@ "market_size" :> S("To be researched")
     @@ "market_trends" :> EmptyList )

MarketAgent_analyze(client_input, discovery, response) ==
  AnalyzeTail(response, MarketAnalysis,
    MarketAgent_parse_fallback(client_input, discovery),
    Dict( "competitors" :> EmptyList
       @@ "competitor_map" :> EmptyDict
       @@ "differentiation_opportunities" :> EmptyList
       @@ "positioning_strategy" :> S("To be developed based on market research") ))

StrategyAgent_parse_fallback(client_input, discovery) ==
  Dict( "strategic_options" :>
          List(<< Dict( "name" :> S("Primary Strategy")
                     @@ "description" :> Str(<<"Focus on ">> \o client_input.d["goal"].s)
                     @@ "pros" :> List(<<S("Aligned with goals")>>)
                     @@ "cons" :> List(<<S("Requires resources")>>)
                     @@ "feasibility" :> S("medium")
                     @@ "impact" :> S("high") ) >>)
     @@ "tradeoffs" :> EmptyDict
     @@ "recommendation" :> Str(<<"Implement strategy to achieve ">> \o client_input.d["goal"].s)
     @@ "rationale" :> Str(<<"Addresses ">> \o discovery.d["problem_statement"].s)
     @@ "success_metrics" :> List(<<S("Goal achievement"), S("Progress tracking")>>) )

StrategyAgent_analyze(client_input, discovery, market, response) ==
  AnalyzeTail(response, StrategyOutput,
    StrategyAgent_parse_fallback(client_input, discovery),
    Dict( "strategic_options" :> EmptyList
       @@ "tradeoffs" :> EmptyDict
       @@ "recommendation" :>
            Str(<<"Focus on achieving ">> \o client_input.d["goal"].s
                  \o <<" while addressing ">> \o discovery.d["problem_statement"].s)
       @@ "rationale" :> S("Based on business context and constraints")
       @@ "success_metrics" :>
            List(<<S("Revenue growth"), S("Market share"), S("Customer satisfaction")>>) ))

PlanItem(task, owner, priority) ==
  Dict( "task" :> S(task) @@ "owner" :> S(owner) @@ "priority" :> S(priority)
     @@ "status" :> S("not_started") )

OpsAgent_parse_fallback(strategy) ==
  Dict( "plan_30_days" :>
          List(<<PlanItem("Initiate strategy implementation", "Leadership team", "high")>>)
     @@ "plan_60_days" :>
          List(<<PlanItem("Execute key initiatives", "Operations team", "high")>>)
     @@ "plan_90_days" :>
          List(<<PlanItem("Review progress and adjust", "Leadership team", "medium")>>)
     @@ "process_improvements" :> List(<<S("Streamline operations"), S("Improve efficiency")>>)
     @@ "org_changes" :> List(<<S("Align team structure with strategy")>>)
     @@ "resource_requirements" :>
          Dict( "people" :> S("To be determined") @@ "budget" :> S("To be determined")
             @@ "tools" :> EmptyList ) )

OpsAgent_analyze(client_input, discovery, strategy, response) ==
  AnalyzeTail(response, ExecutionPlan,
    OpsAgent_parse_fallback(strategy),
    Dict( "plan_30_days" :> EmptyList @@ "plan_60_days" :> EmptyList
       @@ "plan_90_days" :> EmptyList @@ "process_improvements" :> EmptyList
       @@ "org_changes" :> EmptyList @@ "resource_requirements" :> EmptyDict ))

FinanceAgent_parse_fallback ==
  Dict( "unit_economics" :>
          Dict( "customer_acquisition_cost" :> S("To be calculated")
             @@ "lifetime_value" :> S("To be calculated")
             @@ "gross_margin" :> S("To be determined")
             @@ "contribution_margin" :> S("To be determined") )
     @@ "pricing_strategy" :> S("Competitive pricing based on market analysis")
     @@ "revenue_projections" :>
          Dict( "month_1" :> S("Initial revenue") @@ "month_3" :> S("Growing revenue")
             @@ "month_6" :> S("Established revenue")
             @@ "year_1" :> S("Annual revenue projection") )
     @@ "cost_structure" :>
          Dict( "fixed_costs" :> S("Operational overhead")
             @@ "variable_costs" :> S("Cost of goods/services")
             @@ "cost_breakdown" :> S("To be detailed") )
     @@ "roi_model" :>
          Dict( "investment" :> S("To be calculated")
             @@ "expected_return" :> S("To be projected")
             @@ "roi" :> S("To be calculated")
             @@ "payback_period" :> S("To be determined")
             @@ "assumptions" :> List(<<S("Market conditions"), S("Execution success")>>) )
     @@ "break_even_analysis" :>
          Dict( "break_even_point" :> S("To be calculated")
             @@ "break_even_timeline" :> S("To be determined")
             @@ "key_assumptions" :> List(<<S("Revenue growth"), S("Cost management")>>) ) )

FinanceAgent_analyze(client_input, discovery, strategy, response) ==
  AnalyzeTail(response, FinancialModel,
    FinanceAgent_parse_fallback,
    Dict( "unit_economics" :> EmptyDict
       @@ "pricing_strategy" :> S("To be determined based on market research")
       @@ "revenue_projections" :> EmptyDict @@ "cost_structure" :> EmptyDict
       @@ "roi_model" :> EmptyDict @@ "break_even_analysis" :> EmptyDict ))

RiskAgent_parse_fallback(client_input, strategy) ==
  Dict( "risks" :>
          List(<< Dict( "category" :> S("Strategic")
                     @@ "description" :> S("Strategy execution risk")
                     @@ "severity" :> S("medium")
                     @@ "likelihood" :> S("medium")
                     @@ "impact" :> S("May affect goal achievement") ) >>)
     @@ "mitigations" :>
          List(<< Dict( "risk_id" :> S("Strategy execution risk")
                     @@ "strategy" :> S("Regular monitoring and adjustment")
                     @@ "owner" :> S("Leadership team")
                     @@ "timeline" :> S("Ongoing") ) >>)
     @@ "compliance_flags" :>
          List(<< Str(<<"Industry-specific regulations for ">> \o client_input.d["industry"].s),
                  S("Data privacy and security requirements") >>)
     @@ "legal_considerations" :>
          List(<< S("Contractual obligations"), S("Regulatory compliance"),
                  S("Intellectual property protection") >>) )

RiskAgent_analyze(client_input, discovery, strategy, response) ==
  AnalyzeTail(response, RiskAnalysis,
    RiskAgent_parse_fallback(client_input, strategy),
    Dict( "risks" :> EmptyList @@ "mitigations" :> EmptyList
       @@ "compliance_flags" :> EmptyList @@ "legal_considerations" :> EmptyList ))

\* ------------------------------------------------------------------------
\* KPIGenerator
\* ------------------------------------------------------------------------
\* The items of a dict literal built by conditional insertions.
Only(cond, key, v) == IF cond THEN key :> v ELSE NoMap

\* generate_from_agents keeping the resource requirements whether or not
\* there are any.
generate_from_agents_AlwaysResources(financial, strategy, execution) ==
  Construct(KPIMetrics,
    Dict( "revenue_metrics" :>
            Dict( (IF Truthy(financial) THEN
                     Only(Truthy(financial.d["unit_economics"]), "unit_economics",
                          financial.d["unit_economics"])
                     @@ Only(Truthy(financial.d["revenue_projections"]), "projections",
                             financial.d["revenue_projections"])
                   ELSE NoMap) )
       @@ "operational_metrics" :>
            Dict( (IF Truthy(execution) THEN
                     "milestones_30" :> Num(<<ToString(Len(execution.d["plan_30_days"].e))>>)
                     @@ "milestones_60" :> Num(<<ToString(Len(execution.d["plan_60_days"].e))>>)
                     @@ "milestones_90" :> Num(<<ToString(Len(execution.d["plan_90_days"].e))>>)
                     @@ "resources" :> execution.d["resource_requirements"]
                   ELSE NoMap) )
       @@ "customer_metrics" :> EmptyDict
       @@ "financial_metrics" :>
            Dict( (IF Truthy(financial) THEN
                     Only(Truthy(financial.d["roi_model"]), "roi", financial.d["roi_model"])
                     @@ Only(Truthy(financial.d["break_even_analysis"]), "break_even",
                             financial.d["break_even_analysis"])
                   ELSE NoMap) )
       @@ "targets" :>
            Dict( (IF Truthy(strategy) THEN
                     Only(Truthy(strategy.d["success_metrics"]), "strategic_metrics",
                          strategy.d["success_metrics"])
                   ELSE NoMap) ) ))

generate_from_agents(financial, strategy, execution) ==
  Construct(KPIMetrics,
    Dict( "revenue_metrics" :>
            Dict( (IF Truthy(financial) THEN
                     Only(Truthy(financial.d["unit_economics"]), "unit_economics",
                          financial.d["unit_economics"])
                     @@ Only(Truthy(financial.d["revenue_projections"]), "projections",
                             financial.d["revenue_projections"])
                   ELSE NoMap) )
       @@ "operational_metrics" :>
            Dict( (IF Truthy(execution) THEN
                     "milestones_30" :> Num(<<ToString(Len(execution.d["plan_30_days"].e))>>)
                     @@ "milestones_60" :> Num(<<ToString(Len(execution.d["plan_60_days"].e))>>)
                     @@ "milestones_90" :> Num(<<ToString(Len(execution.d["plan_90_days"].e))>>)
                     @@ Only(Truthy(execution.d["resource_requirements"]), "resources",
                             execution.d["resource_requirements"])
                   ELSE NoMap) )
       @@ "customer_metrics" :> EmptyDict
       @@ "financial_metrics" :>
            Dict( (IF Truthy(financial) THEN
                     Only(Truthy(financial.d["roi_model"]), "roi", financial.d["roi_model"])
                     @@ Only(Truthy(financial.d["break_even_analysis"]), "break_even",
                             financial.d["break_even_analysis"])
                   ELSE NoMap) )
       @@ "targets" :>
            Dict( (IF Truthy(strategy) THEN
                     Only(Truthy(strategy.d["success_metrics"]), "strategic_metrics",
                          strategy.d["success_metrics"])
                   ELSE NoMap) ) ))

\* ------------------------------------------------------------------------
\* ReportStitcher
\* ------------------------------------------------------------------------
SectionNames ==
  {"discovery", "market_analysis", "strategy", "execution_plan", "financial_model",
   "risk_analysis", "kpi_dashboard"}

\* The separator "\n\n" between the parts of the summary, as one chunk.
ParaSep == "<blank line>"

RECURSIVE Join(_, _)
\* sep.join(parts)
Join(parts, sep) ==
  IF parts = <<>> THEN <<>>
  ELSE IF Len(parts) = 1 THEN parts[1]
  ELSE parts[1] \o <<sep>> \o Join(Tail(parts), sep)

\* dict.get(key, default)
Get(d, key, default) == IF key \in DOMAIN d THEN d[key] ELSE default

\* generate_executive_summary with the risk statement written whether or not a
\* risk section is present.
summary_parts_AlwaysRisk(sections) ==
  (IF "discovery" \in DOMAIN sections
   THEN << <<"**Problem Statement**: ">> \o sections["discovery"].d["problem_statement"].s >>
   ELSE <<>>)
  \o (IF "strategy" \in DOMAIN sections
      THEN << <<"**Strategic Recommendation**: ">> \o sections["strategy"].d["recommendation"].s >>
      ELSE <<>>)
  \o (IF "financial_model" \in DOMAIN sections
         /\ "roi_model" \in DOMAIN sections["financial_model"].d["roi_model"].d
      THEN << <<"**Expected ROI**: ">>
               \o ToStr(Get(sections["financial_model"].d["roi_model"].d, "roi", S("N/A"))).s >>
      ELSE <<>>)
  \o (IF "risk_analysis" \in DOMAIN sections /\ Truthy(sections["risk_analysis"].d["risks"])
      THEN << <<"**Primary Risk**: ">>
               \o ToStr(Get(sections["risk_analysis"].d["risks"].e[1].d, "description",
                            S("N/A"))).s >>
      ELSE << <<"**Primary Risk**: ", "N/A">> >>)

\* The parts generate_executive_summary collects, in order.
summary_parts(sections) ==
  (IF "discovery" \in DOMAIN sections
   THEN << <<"**Problem Statement**: ">> \o sections["discovery"].d["problem_statement"].s >>
   ELSE <<>>)
  \o (IF "strategy" \in DOMAIN sections
      THEN << <<"**Strategic Recommendation**: ">> \o sections["strategy"].d["recommendation"].s >>
      ELSE <<>>)
  \o (IF "financial_model" \in DOMAIN sections
         /\ "roi_model" \in DOMAIN sections["financial_model"].d["roi_model"].d
      THEN << <<"**Expected ROI**: ">>
               \o ToStr(Get(sections["financial_model"].d["roi_model"].d, "roi", S("N/A"))).s >>
      ELSE <<>>)
  \o (IF "risk_analysis" \in DOMAIN sections /\ Truthy(sections["risk_analysis"].d["risks"])
      THEN << <<"**Primary Risk**: ">>
               \o ToStr(Get(sections["risk_analysis"].d["risks"].e[1].d, "description",
                            S("N/A"))).s >>
      ELSE <<>>)

generate_executive_summary(sections) == Str(Join(summary_parts(sections), ParaSep))

\* A point in time, as datetime.now() returns it.
DateTime(t) == [k |-> "datetime", s |-> <<ToString(t)>>, e |-> <<>>, d |-> NoMap]

\* build_full_report with every section of FullReport optional.
build_full_report_Partial(sections, now) ==
  Return(Model( [n \in SectionNames |-> Get(sections, n, Null)]
             @@ "executive_summary" :> generate_executive_summary(sections)
             @@ "generated_at" :> DateTime(now) ))

\* build_full_report: FullReport(...) raises ValidationError when a section
\* is absent (None); generated_at is taken from the clock at construction.
build_full_report(sections, now) ==
  IF SectionNames \subseteq DOMAIN sections
  THEN Return(Model( [n \in SectionNames |-> sections[n]]
                  @@ "executive_summary" :> generate_executive_summary(sections)
                  @@ "generated_at" :> DateTime(now) ))
  ELSE Raise("ValidationError")

\* model_dump() of a section, or {} when the section is falsy.
Dump(v) == IF v.k = "model" THEN Dict(v.d) ELSE EmptyDict

\* to_dict: builds the report again and dumps it.
to_dict(sections, now) ==
  IF build_full_report(sections, now).raised THEN build_full_report(sections, now)
  ELSE LET report == build_full_report(sections, now).val
       IN Return(Dict( [n \in SectionNames |-> Dump(report.d[n])]
                    @@ "executive_summary" :> report.d["executive_summary"]
                    @@ "generated_at" :> Str(report.d["generated_at"].s) ))

\* render_full_report: the context handed to the template, which is what the
\* written document shows.
render_full_report(report_data, now) ==
  Dict( [n \in DOMAIN report_data.d \cup {"generated_at", "version"} |->
          IF n = "generated_at" THEN Str(<<ToString(now)>>)
          ELSE IF n = "version" THEN S("1.0")
          ELSE report_data.d[n]] )

\* ------------------------------------------------------------------------
\* The inputs considered
\* ------------------------------------------------------------------------
\* Largest value the clock reaches.
MaxClock == 1

Q(w) == <<Quote, w, Quote>>
KV(key, vt) == Q(key) \o <<Colon, WS>> \o vt
Obj(members) == <<LBrace>> \o Join(members, Comma) \o <<RBrace>>
Arr(elems) == <<LBrack>> \o Join(elems, Comma) \o <<RBrack>>

ProseText == <<"not json at all">>
EmptyText == <<>>
EmptyObjectText == <<LBrace, RBrace>>
ListText == Arr(<< <<"1">> >>)
NumberText == <<"1">>
ZeroText == <<"0">>
\* An object in which one field of every stage schema has the wrong shape.
WrongShapedText ==
  Obj(<< KV("problem_statement", <<"1">>), KV("competitors", Q("Acme")),
         KV("strategic_options", Q("Upsell")), KV("plan_30_days", Q("Hire")),
         KV("unit_economics", Q("Good")), KV("risks", Q("single risk text")) >>)
\* Prose around an object that does not validate.
ProseAroundObjectText == <<"Sure:", WS>> \o WrongShapedText \o <<WS, "extra text">>

GoodDiscoveryText ==
  Obj(<< KV("problem_statement", Q("ARR is flat")), KV("key_assumptions", Arr(<<>>)),
         KV("facts_gathered", Arr(<<Q("Bootstrapped")>>)), KV("questions_clarified", Arr(<<>>)),
         KV("business_model", Q("SaaS")), KV("target_market", Q("Shippers")) >>)
GoodMarketText ==
  Obj(<< KV("competitors", Arr(<<Obj(<<KV("name", Q("Acme"))>>)>>)),
         KV("competitor_map", Obj(<<>>)), KV("differentiation_opportunities", Arr(<<>>)),
         KV("positioning_strategy", Q("Premium")) >>)
GoodStrategyText ==
  Obj(<< KV("strategic_options", Arr(<<>>)), KV("tradeoffs", Obj(<<>>)),
         KV("recommendation", Q("Upsell")), KV("rationale", Q("Margins")),
         KV("success_metrics", Arr(<<>>)) >>)
GoodOpsText ==
  Obj(<< KV("plan_30_days", Arr(<<Obj(<<KV("task", Q("Hire"))>>), Obj(<<KV("task", Q("Ship"))>>)>>)),
         KV("plan_60_days", Arr(<<>>)), KV("plan_90_days", Arr(<<>>)),
         KV("process_improvements", Arr(<<>>)), KV("org_changes", Arr(<<>>)),
         KV("resource_requirements", Obj(<<>>)) >>)
FinanceText(roi_model) ==
  Obj(<< KV("unit_economics", Obj(<<>>)), KV("pricing_strategy", Q("Tiered")),
         KV("revenue_projections", Obj(<<>>)), KV("cost_structure", Obj(<<>>)),
         KV("roi_model", roi_model), KV("break_even_analysis", Obj(<<>>)) >>)
\* roi_model with an roi entry only, and with an entry named roi_model only.
RoiOnlyText == FinanceText(Obj(<<KV("roi", Q("15%"))>>))
RoiModelKeyText == FinanceText(Obj(<<KV("roi_model", Q("simple"))>>))
RiskText(risks) ==
  Obj(<< KV("risks", risks), KV("mitigations", Arr(<<>>)),
         KV("compliance_flags", Arr(<<>>)), KV("legal_considerations", Arr(<<>>)) >>)
DescribedRiskText == RiskText(Arr(<<Obj(<<KV("description", Q("Churn"))>>)>>))
UndescribedRiskText == RiskText(Arr(<<Obj(<<KV("category", Q("Legal"))>>)>>))

\* The texts a backend may answer a stage's request with in a run: prose, prose
\* around an object that does not validate, or an object of the stage's schema.
Texts(stage) ==
  {ProseText, ProseAroundObjectText} \cup
  CASE stage = "discovery" -> {GoodDiscoveryText}
    [] stage = "market" -> {GoodMarketText}
    [] stage = "strategy" -> {GoodStrategyText}
    [] stage = "ops" -> {GoodOpsText}
    [] stage = "finance" -> {RoiOnlyText, RoiModelKeyText}
    [] stage = "risk" -> {DescribedRiskText, UndescribedRiskText}
    [] OTHER -> {}

\* The remote API may also answer with no content (None); Ollama's answer is
\* always a string.
ApiOutcomes(stage) == {Fails, Answers(Null)} \cup {Answers(Str(t)) : t \in Texts(stage)}
LocalOutcomes(stage) == {Fails} \cup {Answers(Str(t)) : t \in Texts(stage)}

\* What the operator may type at a prompt; the additional context is left
\* blank.
RawInputs(word) == {<<>>, <<WS>>, <<WS, word, WS>>}
BlankInputs == {<<>>, <<WS>>}

\* A response is ill-formed when it is text that does not parse as a whole.
IllFormed(response) == response.k = "str" /\ json_loads(Strip(response.s)).raised

\* ------------------------------------------------------------------------
\* State
\* ------------------------------------------------------------------------
VARIABLES
  pc,             \* where main is
  llm,            \* the global QwenLLM instance, as _setup_client left it
  client_input,   \* the ClientInput get_client_input returned (None before)
  frame,          \* the local variables of generate_report
  sections,       \* ReportStitcher.sections
  report,         \* the FullReport generate_report returned (None before)
  saved,          \* the file save_report wrote (None before)
  clock,          \* the time datetime.now() last returned
  last_call,      \* the backend requests of the latest generate call
  issued,         \* the stages whose generate call has been issued, in order
  builds,         \* how many times FullReport has been constructed
  exit_status,    \* the status main exited with (-1 while running)
  error_reported, \* whether an error message has been printed
  aborted_by,     \* what ended the run early ("" when nothing did)
  all_illformed,  \* whether every response so far was ill-formed text
  answers,        \* the answers get_client_input has read, stripped
  call,           \* a single call of a function: its name and arguments
  outcome         \* what that call returned or raised (None before it is made)

vars ==
  <<pc, llm, client_input, frame, sections, report, saved, clock, last_call, issued, builds,
    exit_status, error_reported, aborted_by, all_illformed, answers, call, outcome>>

\* No single call is being followed.
NoCall == [fn |-> "", done |-> FALSE]

Init ==
  /\ pc = "get_client_input"
  /\ llm \in SetupOutcomes
  /\ client_input = Null
  /\ frame = NoMap
  /\ sections = NoMap
  /\ report = Null
  /\ saved = Null
  /\ clock = 0
  /\ last_call = <<>>
  /\ issued = <<>>
  /\ builds = 0
  /\ exit_status = -1
  /\ error_reported = FALSE
  /\ aborted_by = ""
  /\ all_illformed = TRUE
  /\ answers = NoMap
  /\ call = NoCall
  /\ outcome = Null

\* ExitWithError leaving with status 0.
ExitWithError_Status0(cause) ==
  /\ pc' = "exit"
  /\ exit_status' = 0
  /\ error_reported' = TRUE
  /\ aborted_by' = cause

\* sys.exit(1) after an error message, from get_client_input or from main's
\* handler of Exception.
ExitWithError(cause) ==
  /\ pc' = "exit"
  /\ exit_status' = 1
  /\ error_reported' = TRUE
  /\ aborted_by' = cause

\* ------------------------------------------------------------------------
\* main
\* ------------------------------------------------------------------------
\* The prompts of get_client_input, in order.
Prompts == <<"business", "industry", "goal", "constraints", "additional_context">>

\* FirstMissing without the check of the goal.
FirstMissing_NoGoal(typed) ==
  IF Strip(typed["business"]) = <<>> THEN 1
  ELSE IF Strip(typed["industry"]) = <<>> THEN 2
  ELSE 0

\* The first prompt whose answer ends the run: business, industry and goal
\* are required (0 when none is empty).
FirstMissing(typed) ==
  IF Strip(typed["business"]) = <<>> THEN 1
  ELSE IF Strip(typed["industry"]) = <<>> THEN 2
  ELSE IF Strip(typed["goal"]) = <<>> THEN 3
  ELSE 0

\* get_client_input: reads and strips the answers one by one; an empty
\* business, industry or goal ends the run at once, empty constraints become
\* "None specified" and an empty additional context None.
GetClientInput ==
  /\ pc = "get_client_input"
  /\ \E business \in RawInputs("B2B SaaS for logistics"), industry \in RawInputs("Logistics"),
        goal \in RawInputs("Increase ARR"), constraints \in RawInputs("Bootstrapped"),
        additional_context \in BlankInputs :
       LET typed == "business" :> business @@ "industry" :> industry @@ "goal" :> goal
                    @@ "constraints" :> constraints
                    @@ "additional_context" :> additional_context
           read == IF FirstMissing(typed) = 0 THEN 5 ELSE FirstMissing(typed)
       IN /\ answers' = [n \in {Prompts[i] : i \in 1..read} |-> Strip(typed[n])]
          /\ IF FirstMissing(typed) # 0
             THEN /\ ExitWithError("input")
                  /\ UNCHANGED client_input
             ELSE /\ client_input' =
                       Construct(ClientInput,
                         Dict( "business" :> Str(Strip(business))
                            @@ "industry" :> Str(Strip(industry))
                            @@ "goal" :> Str(Strip(goal))
                            @@ "constraints" :> (IF Strip(constraints) # <<>>
                                                 THEN Str(Strip(constraints))
                                                 ELSE S("None specified"))
                            @@ "additional_context" :> (IF Strip(additional_context) # <<>>
                                                        THEN Str(Strip(additional_context))
                                                        ELSE Null) )).val
                  /\ pc' = "discovery"
                  /\ UNCHANGED <<exit_status, error_reported, aborted_by>>
  /\ UNCHANGED <<llm, frame, sections, report, saved, clock, last_call, issued, builds,
                 all_illformed, call, outcome>>

DiscoveryAnalyze(response) == DiscoveryAgent_analyze(client_input, response)
MarketAnalyze(response) == MarketAgent_analyze(client_input, frame["discovery"], response)
StrategyAnalyze(response) ==
  StrategyAgent_analyze(client_input, frame["discovery"], frame["market"], response)
OpsAnalyze(response) ==
  OpsAgent_analyze(client_input, frame["discovery"], frame["strategy"], response)
FinanceAnalyze(response) ==
  FinanceAgent_analyze(client_input, frame["discovery"], frame["strategy"], response)
RiskAnalyze(response) ==
  RiskAgent_analyze(client_input, frame["discovery"], frame["strategy"], response)

\* What the agent's generate call of a stage may come to: its backend requests
\* and its result.  A backend is asked only where generate reaches it.
Generated(stage) ==
  UNION { { generate(llm, TRUE, api, local) :
              local \in (IF ~llm.use_ollama /\ llm.use_api /\ llm.client /\ ~api.failed
                         THEN {Fails} ELSE LocalOutcomes(stage)) } :
          api \in (IF ~llm.use_ollama /\ llm.use_api /\ llm.client
                   THEN ApiOutcomes(stage) ELSE {Fails}) }

\* A phase that hands over to the next before its artifact is in the stitcher.
Phase_StoreLater(stage, local_var, section, next, g, artifact) ==
  /\ pc = stage
  /\ last_call' = g.requests
  /\ issued' = Append(issued, stage)
  /\ IF g.result.raised
     THEN /\ ExitWithError("transport")
          /\ UNCHANGED <<frame, sections, all_illformed>>
     ELSE IF artifact.raised
     THEN /\ ExitWithError(artifact.exc)
          /\ all_illformed' = (all_illformed /\ IllFormed(g.result.val))
          /\ UNCHANGED <<frame, sections>>
     ELSE /\ frame' = PutItem(frame, local_var, artifact.val)
          /\ sections' = sections
          /\ all_illformed' = (all_illformed /\ IllFormed(g.result.val))
          /\ pc' = next
          /\ UNCHANGED <<exit_status, error_reported, aborted_by>>
  /\ UNCHANGED <<llm, client_input, report, saved, clock, builds,
                 answers, call, outcome>>

\* One phase of generate_report: the agent's generate call (g), the rest of
\* its analyze (artifact), and the stitcher's add.  An exception (a failed
\* backend, or one analyze lets through) reaches main's handler, which prints
\* it and exits.
Phase(stage, local_var, section, next, g, artifact) ==
  /\ pc = stage
  /\ last_call' = g.requests
  /\ issued' = Append(issued, stage)
  /\ IF g.result.raised
     THEN /\ ExitWithError("transport")
          /\ UNCHANGED <<frame, sections, all_illformed>>
     ELSE IF artifact.raised
     THEN /\ ExitWithError(artifact.exc)
          /\ all_illformed' = (all_illformed /\ IllFormed(g.result.val))
          /\ UNCHANGED <<frame, sections>>
     ELSE /\ frame' = PutItem(frame, local_var, artifact.val)
          /\ sections' = PutItem(sections, section, artifact.val)
          /\ all_illformed' = (all_illformed /\ IllFormed(g.result.val))
          /\ pc' = next
          /\ UNCHANGED <<exit_status, error_reported, aborted_by>>
  /\ UNCHANGED <<llm, client_input, report, saved, clock, builds,
                 answers, call, outcome>>

\* DiscoveryPhase handing over to the strategy phase directly.
DiscoveryPhase_ThenStrategy ==
  \E g \in Generated("discovery") :
    Phase("discovery", "discovery", "discovery", "strategy", g, DiscoveryAnalyze(g.result.val))

DiscoveryPhase ==
  \E g \in Generated("discovery") :
    Phase("discovery", "discovery", "discovery", "market", g, DiscoveryAnalyze(g.result.val))
MarketPhase ==
  \E g \in Generated("market") :
    Phase("market", "market", "market_analysis", "strategy", g, MarketAnalyze(g.result.val))
StrategyPhase ==
  \E g \in Generated("strategy") :
    Phase("strategy", "strategy", "strategy", "ops", g, StrategyAnalyze(g.result.val))
OpsPhase ==
  \E g \in Generated("ops") :
    Phase("ops", "execution", "execution_plan", "finance", g, OpsAnalyze(g.result.val))
FinancePhase ==
  \E g \in Generated("finance") :
    Phase("finance", "financial", "financial_model", "risk", g, FinanceAnalyze(g.result.val))
RiskPhase ==
  \E g \in Generated("risk") :
    Phase("risk", "risk", "risk_analysis", "kpi", g, RiskAnalyze(g.result.val))

\* KpiPhase keeping, among the customer metrics, a count of the generation
\* calls issued so far.
KpiPhase_Counting ==
  /\ pc = "kpi"
  /\ LET kpi == generate_from_agents(frame["financial"], frame["strategy"], frame["execution"])
         counted == Model([kpi.val.d EXCEPT !["customer_metrics"] =
                             Dict("calls" :> Num(<<ToString(Len(issued))>>))])
     IN /\ frame' = PutItem(frame, "kpi", counted)
        /\ sections' = PutItem(sections, "kpi_dashboard", counted)
  /\ pc' = "build"
  /\ UNCHANGED <<llm, client_input, report, saved, clock, last_call, issued, builds,
                 exit_status, error_reported, aborted_by, all_illformed,
                 answers, call, outcome>>

\* The KPI dashboard: derived from three local artifacts, no generation call.
KpiPhase ==
  /\ pc = "kpi"
  /\ LET kpi == generate_from_agents(frame["financial"], frame["strategy"], frame["execution"])
     IN /\ frame' = PutItem(frame, "kpi", kpi.val)
        /\ sections' = PutItem(sections, "kpi_dashboard", kpi.val)
  /\ pc' = "build"
  /\ UNCHANGED <<llm, client_input, report, saved, clock, last_call, issued, builds,
                 exit_status, error_reported, aborted_by, all_illformed,
                 answers, call, outcome>>

\* The end of generate_report: the stitcher builds the FullReport.
BuildReport ==
  /\ pc = "build"
  /\ LET now == clock
     IN /\ builds' = builds + 1
       /\ IF build_full_report(sections, now).raised
          THEN /\ ExitWithError(build_full_report(sections, now).exc)
               /\ UNCHANGED report
          ELSE /\ report' = build_full_report(sections, now).val
               /\ pc' = "save_report"
               /\ UNCHANGED <<exit_status, error_reported, aborted_by>>
  /\ UNCHANGED <<llm, client_input, frame, sections, saved, clock, last_call, issued,
                 all_illformed,
                 answers, call, outcome>>

\* save_report: names the file after the time, asks the stitcher for the
\* report as a dict (which builds it again) and renders it to the file.
SaveReport ==
  /\ pc = "save_report"
  /\ \E rebuilt \in clock..MaxClock : \E rendered \in rebuilt..MaxClock :
     LET named == clock
     IN
       /\ clock' = rendered
       /\ builds' = builds + 1
       /\ IF to_dict(sections, rebuilt).raised
          THEN /\ ExitWithError(to_dict(sections, rebuilt).exc)
               /\ UNCHANGED saved
          ELSE /\ saved' = [ k |-> "file",
                             s |-> <<"business_report_", ToString(named), ".md">>,
                             e |-> <<>>,
                             d |-> render_full_report(to_dict(sections, rebuilt).val,
                                                      rendered).d ]
               /\ pc' = "done"
               /\ exit_status' = 0
               /\ UNCHANGED <<error_reported, aborted_by>>
  /\ UNCHANGED <<llm, client_input, frame, sections, report, last_call, issued, all_illformed,
                 answers, call, outcome>>

Next ==
  \/ GetClientInput
  \/ DiscoveryPhase
  \/ MarketPhase
  \/ StrategyPhase
  \/ OpsPhase
  \/ FinancePhase
  \/ RiskPhase
  \/ KpiPhase
  \/ BuildReport
  \/ SaveReport

Spec == Init /\ [][Next]_vars

\* ------------------------------------------------------------------------
\* validate_and_fix_json, called on its own
\* ------------------------------------------------------------------------
\* A value of the declared shape, and a value of another shape, for a field.
GoodValue(f) ==
  CASE f.annotation \in {"str", "Optional[str]"} -> S("text")
    [] f.annotation = "List[str]" -> List(<<S("item")>>)
    [] f.annotation \in {"List[Dict[str, Any]]", "List[Dict[str, str]]"} ->
         List(<<Dict("description" :> S("Churn"))>>)
    [] OTHER -> Dict("roi" :> S("15%"))
WrongValue(f) ==
  IF f.annotation \in {"str", "Optional[str]"} THEN Num(<<"1">>) ELSE S("single risk text")

\* Values of every kind, falsy and truthy.
OtherValues ==
  { Null, EmptyStr, Num(<<"0">>), Num(<<"1">>), Bool(<<"false">>), EmptyList,
    List(<<Num(<<"1">>)>>), List(<<S("item")>>), EmptyDict, Dict("roi" :> Num(<<"1">>)) }

\* The mappings in which every field is absent, well shaped or wrongly shaped.
ShapeMappings(schema) ==
  { Dict([n \in present |-> IF n \in wrong THEN WrongValue(FieldOf(schema, n))
                            ELSE GoodValue(FieldOf(schema, n))]) :
      <<present, wrong>> \in { pw \in (SUBSET model_fields(schema)) \X (SUBSET model_fields(schema)) :
                                 pw[2] \subseteq pw[1] } }

\* The mappings with every field well shaped but one, which holds any value.
OneOffMappings(schema) ==
  { Dict([n \in model_fields(schema) |-> IF n = odd THEN v ELSE GoodValue(FieldOf(schema, n))]) :
      <<odd, v>> \in model_fields(schema) \X OtherValues }

\* The data validate_and_fix_json is called with: None, a list, a mapping
\* with an undeclared key, and the mappings above.
ValidatorData(schema) ==
  { Null, List(<<S("item")>>), EmptyDict, Dict("note" :> S("undeclared")) }
  \cup ShapeMappings(schema) \cup OneOffMappings(schema)

InitValidate ==
  /\ pc = "call"
  /\ llm \in {CHOOSE o \in SetupOutcomes : o.use_ollama}
  /\ client_input = Null
  /\ frame = NoMap
  /\ sections = NoMap
  /\ report = Null
  /\ saved = Null
  /\ clock = 0
  /\ last_call = <<>>
  /\ issued = <<>>
  /\ builds = 0
  /\ exit_status = -1
  /\ error_reported = FALSE
  /\ aborted_by = ""
  /\ all_illformed = TRUE
  /\ answers = NoMap
  /\ \E schema \in StageSchemas : \E data \in ValidatorData(schema) : \E strict \in BOOLEAN :
       call = [fn |-> "validate_and_fix_json", done |-> FALSE, data |-> data,
               schema |-> schema, strict |-> strict]
  /\ outcome = Null

\* The call is made; the number of construction attempts is kept with it.
ValidateCall ==
  /\ call.fn = "validate_and_fix_json"
  /\ ~call.done
  /\ call' = [call EXCEPT !.done = TRUE]
  /\ outcome' = [ raised |-> validate_and_fix_json(call.data, call.schema, call.strict).raised,
                  exc |-> validate_and_fix_json(call.data, call.schema, call.strict).exc,
                  val |-> validate_and_fix_json(call.data, call.schema, call.strict).val,
                  attempts |-> Attempts(call.data, call.schema, call.strict) ]
  /\ UNCHANGED <<pc, llm, client_input, frame, sections, report, saved, clock, last_call,
                 issued, builds, exit_status, error_reported, aborted_by, all_illformed,
                 answers>>

NextValidate == ValidateCall

SpecValidate == InitValidate /\ [][NextValidate]_vars

\* ------------------------------------------------------------------------
\* analyze, called on its own
\* ------------------------------------------------------------------------
Stages == <<"discovery", "market", "strategy", "ops", "finance", "risk">>

SchemaOf(stage) ==
  CASE stage = "discovery" -> DiscoveryOutput
    [] stage = "market" -> MarketAnalysis
    [] stage = "strategy" -> StrategyOutput
    [] stage = "ops" -> ExecutionPlan
    [] stage = "finance" -> FinancialModel
    [] OTHER -> RiskAnalysis

ExampleClient ==
  Model( "business" :> S("B2B SaaS for logistics") @@ "industry" :> S("Logistics")
      @@ "goal" :> S("Increase ARR") @@ "constraints" :> S("Bootstrapped")
      @@ "additional_context" :> Null )
OtherClient ==
  Model( "business" :> S("Bakery") @@ "industry" :> S("Food")
      @@ "goal" :> S("Open a second shop") @@ "constraints" :> S("None specified")
      @@ "additional_context" :> S("Family owned") )

\* A fenced block holding an object that does not validate, then more text.
FencedText == <<Fence, Tag, WS>> \o WrongShapedText \o <<WS, Fence, WS, "extra text">>

\* Everything a backend may answer a single call with: the texts of a run,
\* empty and blank text, JSON that is not an object or is falsy, and None.
SingleCallResponses(stage) ==
  {Null} \cup
  { Str(t) : t \in Texts(stage) \cup
      { EmptyText, <<WS>>, EmptyObjectText, ListText, Arr(<<>>), NumberText, ZeroText,
        <<"null">>, <<"false">>, <<"true">>, <<Quote, Quote>>, Q("text"),
        WrongShapedText, FencedText } }

DiscoverySamples ==
  { DiscoveryAgent_analyze(ExampleClient, Str(t)).val : t \in {ProseText, GoodDiscoveryText} }
MarketSamples ==
  { MarketAgent_analyze(ExampleClient, d, Str(ProseText)).val : d \in DiscoverySamples }
StrategySamples ==
  { StrategyAgent_analyze(ExampleClient, d, m, Str(t)).val :
      <<d, m, t>> \in DiscoverySamples \X MarketSamples \X {ProseText, GoodStrategyText} }

\* analyze of the stage's agent.
AgentAnalyze(c) ==
  CASE c.stage = "discovery" -> DiscoveryAgent_analyze(c.client_input, c.response)
    [] c.stage = "market" -> MarketAgent_analyze(c.client_input, c.discovery, c.response)
    [] c.stage = "strategy" ->
         StrategyAgent_analyze(c.client_input, c.discovery, c.market, c.response)
    [] c.stage = "ops" -> OpsAgent_analyze(c.client_input, c.discovery, c.strategy, c.response)
    [] c.stage = "finance" ->
         FinanceAgent_analyze(c.client_input, c.discovery, c.strategy, c.response)
    [] OTHER -> RiskAgent_analyze(c.client_input, c.discovery, c.strategy, c.response)

InitAnalyze ==
  /\ pc = "call"
  /\ llm \in {CHOOSE o \in SetupOutcomes : o.use_ollama}
  /\ client_input = Null
  /\ frame = NoMap
  /\ sections = NoMap
  /\ report = Null
  /\ saved = Null
  /\ clock = 0
  /\ last_call = <<>>
  /\ issued = <<>>
  /\ builds = 0
  /\ exit_status = -1
  /\ error_reported = FALSE
  /\ aborted_by = ""
  /\ all_illformed = TRUE
  /\ answers = NoMap
  /\ \E i \in 1..Len(Stages) : \E client \in {ExampleClient, OtherClient} :
     \E d \in DiscoverySamples : \E m \in MarketSamples : \E st \in StrategySamples :
     \E response \in SingleCallResponses(Stages[i]) :
       call = [fn |-> "analyze", done |-> FALSE, stage |-> Stages[i], client_input |-> client,
               discovery |-> d, market |-> m, strategy |-> st, response |-> response]
  /\ outcome = Null

AnalyzeCall ==
  /\ call.fn = "analyze"
  /\ ~call.done
  /\ call' = [call EXCEPT !.done = TRUE]
  /\ outcome' = AgentAnalyze(call)
  /\ UNCHANGED <<pc, llm, client_input, frame, sections, report, saved, clock, last_call,
                 issued, builds, exit_status, error_reported, aborted_by, all_illformed,
                 answers>>

NextAnalyze == AnalyzeCall

SpecAnalyze == InitAnalyze /\ [][NextAnalyze]_vars

\* ------------------------------------------------------------------------
\* extract_json, called on its own
\* ------------------------------------------------------------------------
\* Longest text made of arbitrary chunks.
MaxTextLen == 3

\* The chunks the arbitrary texts are made of.
Alphabet == {LBrace, RBrace, LBrack, RBrack, Fence, "1", WS}
ArbitraryTexts == UNION { [1..n -> Alphabet] : n \in 0..MaxTextLen }

\* An object nested to depth two and to depth three, inside prose.
NestedTwoText ==
  <<"Here:", WS>> \o Obj(<<KV("a", Obj(<<KV("b", <<"1">>)>>))>>) \o <<WS, "done">>
NestedThreeText ==
  <<"Here:", WS>> \o Obj(<<KV("a", Obj(<<KV("b", Obj(<<KV("c", <<"1">>)>>))>>))>>)
    \o <<WS, "done">>

\* Objects as written, each with the mapping it denotes.
WrittenObjects ==
  { [text |-> Obj(<<KV("a", <<"1">>)>>), value |-> Dict("a" :> Num(<<"1">>))],
    [text |-> Obj(<<>>), value |-> EmptyDict],
    [text |-> Obj(<<KV("a", Obj(<<KV("b", Q("x"))>>)), KV("n", <<"0">>)>>),
     value |-> Dict("a" :> Dict("b" :> S("x")) @@ "n" :> Num(<<"0">>))],
    [text |-> Obj(<<KV("a", Obj(<<KV("b", Obj(<<KV("c", <<"1">>)>>))>>))>>),
     value |-> Dict("a" :> Dict("b" :> Dict("c" :> Num(<<"1">>))))] }

\* One fenced block, with or without the tag, then more text.
FencedDoc(tag, lead, object, extra) ==
  <<Fence>> \o tag \o lead \o object \o <<WS, Fence>> \o extra
FencedCases ==
  { [text |-> FencedDoc(tag, lead, o.text, extra), value |-> o.value] :
      tag \in {<<>>, <<Tag>>}, lead \in {<<>>, <<WS>>}, o \in WrittenObjects,
      extra \in {<<WS, "extra text">>, <<WS>> \o Obj(<<KV("x", <<"1">>)>>)} }
FencedDocs == {c.text : c \in FencedCases}

\* An object in prose before a fenced block holding another object.
ObjectThenFencedText ==
  <<"See", WS>> \o Obj(<<KV("x", <<"1">>)>>) \o <<WS>>
    \o FencedDoc(<<Tag>>, <<WS>>, Obj(<<KV("a", <<"1">>)>>), <<WS, "extra text">>)

ExtractTexts ==
  ArbitraryTexts \cup FencedDocs
  \cup { NestedTwoText, NestedThreeText, ObjectThenFencedText, ProseText, WrongShapedText,
         ProseAroundObjectText, FencedText, GoodDiscoveryText, Q("text"), <<"null">> }

InitExtract ==
  /\ pc = "call"
  /\ llm \in {CHOOSE o \in SetupOutcomes : o.use_ollama}
  /\ client_input = Null
  /\ frame = NoMap
  /\ sections = NoMap
  /\ report = Null
  /\ saved = Null
  /\ clock = 0
  /\ last_call = <<>>
  /\ issued = <<>>
  /\ builds = 0
  /\ exit_status = -1
  /\ error_reported = FALSE
  /\ aborted_by = ""
  /\ all_illformed = TRUE
  /\ answers = NoMap
  /\ \E t \in ExtractTexts : call = [fn |-> "extract_json", done |-> FALSE, text |-> Str(t)]
  /\ outcome = Null

ExtractCall ==
  /\ call.fn = "extract_json"
  /\ ~call.done
  /\ call' = [call EXCEPT !.done = TRUE]
  /\ outcome' = extract_json(call.text)
  /\ UNCHANGED <<pc, llm, client_input, frame, sections, report, saved, clock, last_call,
                 issued, builds, exit_status, error_reported, aborted_by, all_illformed,
                 answers>>

NextExtract == ExtractCall

SpecExtract == InitExtract /\ [][NextExtract]_vars

\* ------------------------------------------------------------------------
\* One orchestrator, called several times
\* ------------------------------------------------------------------------
\* Most calls of generate_report a caller makes on one orchestrator.
MaxCalls == 2
\* Most calls of save_report the caller makes.
MaxSaves == 2

\* The local variable and the stitcher section each stage's artifact goes to.
StageKeys ==
  [ discovery |-> [local |-> "discovery", section |-> "discovery"],
    market |-> [local |-> "market", section |-> "market_analysis"],
    strategy |-> [local |-> "strategy", section |-> "strategy"],
    ops |-> [local |-> "execution", section |-> "execution_plan"],
    finance |-> [local |-> "financial", section |-> "financial_model"],
    risk |-> [local |-> "risk", section |-> "risk_analysis"] ]

\* A local variable of generate_report, None while it is not yet assigned.
Held(locals, name) == IF name \in DOMAIN locals THEN locals[name] ELSE Null

\* The six phases of generate_report from the i-th on: each analyze, then the
\* stitcher's add; an exception ends the call with the sections as they are.
RECURSIVE RunStages(_, _, _, _)
RunStages(run, client, responses, i) ==
  LET Stored(artifact) ==
        IF artifact.raised THEN [run EXCEPT !.raised = TRUE, !.exc = artifact.exc]
        ELSE [run EXCEPT !.frame = PutItem(run.frame, StageKeys[Stages[i]].local, artifact.val),
                         !.sections = PutItem(run.sections, StageKeys[Stages[i]].section,
                                              artifact.val)]
  IN IF i > Len(Stages) \/ run.raised THEN run
     ELSE IF responses[i].raised THEN [run EXCEPT !.raised = TRUE, !.exc = responses[i].exc]
     ELSE RunStages(
            Stored(AgentAnalyze([ stage |-> Stages[i], client_input |-> client,
                                  discovery |-> Held(run.frame, "discovery"),
                                  market |-> Held(run.frame, "market"),
                                  strategy |-> Held(run.frame, "strategy"),
                                  response |-> responses[i].val ])),
            client, responses, i + 1)

\* generate_report as one call: the stitcher's sections after it, and the
\* FullReport it returns or the exception it lets through.
generate_report(stitched, client, responses, now) ==
  LET Built(all) == [sections |-> all, result |-> build_full_report(all, now)]
      Finished(run) ==
        IF run.raised THEN [sections |-> run.sections, result |-> Raise(run.exc)]
        ELSE Built(PutItem(run.sections, "kpi_dashboard",
                           generate_from_agents(run.frame["financial"], run.frame["strategy"],
                                                run.frame["execution"]).val))
  IN Finished(RunStages([frame |-> NoMap, sections |-> stitched, raised |-> FALSE, exc |-> ""],
                        client, responses, 1))

\* What the six generate calls of one generate_report come to: prose every
\* time, a valid object every time, or prose until a backend fails.
GoodTextOf ==
  [ discovery |-> GoodDiscoveryText, market |-> GoodMarketText, strategy |-> GoodStrategyText,
    ops |-> GoodOpsText, finance |-> RoiOnlyText, risk |-> DescribedRiskText ]
ResponseProfiles ==
  { [i \in 1..Len(Stages) |-> Return(Str(ProseText))],
    [i \in 1..Len(Stages) |-> Return(Str(GoodTextOf[Stages[i]]))] }
  \cup { [i \in 1..Len(Stages) |-> IF i < k THEN Return(Str(ProseText))
                                    ELSE Raise("TransportError")] : k \in 1..Len(Stages) }

InitReuse ==
  /\ pc = "caller"
  /\ llm \in {CHOOSE o \in SetupOutcomes : o.use_ollama}
  /\ client_input = Null
  /\ frame = NoMap
  /\ sections = NoMap
  /\ report = Null
  /\ saved = Null
  /\ clock = 0
  /\ last_call = <<>>
  /\ issued = <<>>
  /\ builds = 0
  /\ exit_status = -1
  /\ error_reported = FALSE
  /\ aborted_by = ""
  /\ all_illformed = TRUE
  /\ answers = NoMap
  /\ call = [fn |-> "", done |-> FALSE, calls |-> 0, saves |-> 0, held |-> <<>>,
             report |-> Null]
  /\ outcome = Null

\* The caller calls generate_report; it keeps every report returned to it.
GenerateReportCall ==
  /\ pc = "caller"
  /\ call.calls < MaxCalls
  /\ \E client \in {ExampleClient, OtherClient}, responses \in ResponseProfiles :
       LET Returned(g) ==
             /\ client_input' = client
             /\ sections' = g.sections
             /\ outcome' = g.result
             /\ report' = IF g.result.raised THEN report ELSE g.result.val
             /\ builds' = IF g.result.raised THEN builds ELSE builds + 1
             /\ call' = [ fn |-> "generate_report", done |-> TRUE, calls |-> call.calls + 1,
                          saves |-> call.saves,
                          held |-> IF g.result.raised THEN call.held
                                   ELSE Append(call.held, g.result.val),
                          report |-> Null ]
       IN Returned(generate_report(sections, client, responses, clock))
  /\ UNCHANGED <<pc, llm, frame, saved, clock, last_call, issued, exit_status, error_reported,
                 aborted_by, all_illformed, answers>>

\* The caller calls save_report with one of the reports it holds.
SaveReportCall ==
  /\ pc = "caller"
  /\ call.saves < MaxSaves
  /\ \E i \in 1..Len(call.held) :
       LET Written(dict) ==
             /\ outcome' = IF dict.raised THEN dict
                           ELSE Return(Str(<<"business_report_", ToString(clock), ".md">>))
             /\ saved' = IF dict.raised THEN saved
                         ELSE [ k |-> "file",
                                s |-> <<"business_report_", ToString(clock), ".md">>,
                                e |-> <<>>,
                                d |-> render_full_report(dict.val, clock).d ]
       IN /\ Written(to_dict(sections, clock))
          /\ call' = [call EXCEPT !.fn = "save_report", !.done = TRUE, !.saves = @ + 1,
                                  !.report = call.held[i]]
  /\ builds' = builds + 1
  /\ UNCHANGED <<pc, llm, client_input, frame, sections, report, clock, last_call, issued,
                 exit_status, error_reported, aborted_by, all_illformed, answers>>

NextReuse == GenerateReportCall \/ SaveReportCall

SpecReuse == InitReuse /\ [][NextReuse]_vars

\* ------------------------------------------------------------------------
\* One ReportStitcher, called on its own
\* ------------------------------------------------------------------------
\* schema(**json.loads(text)) for a text that validates.
ArtifactOf(schema, t) == Construct(schema, json_loads(t).val).val

\* The artifacts that may be handed to each add_* method.
Artifacts ==
  [ section \in SectionNames |->
  CASE section = "discovery" -> {ArtifactOf(DiscoveryOutput, GoodDiscoveryText)}
    [] section = "market_analysis" -> {ArtifactOf(MarketAnalysis, GoodMarketText)}
    [] section = "strategy" -> {ArtifactOf(StrategyOutput, GoodStrategyText)}
    [] section = "execution_plan" -> {ArtifactOf(ExecutionPlan, GoodOpsText)}
    [] section = "financial_model" ->
         { ArtifactOf(FinancialModel, RoiOnlyText), ArtifactOf(FinancialModel, RoiModelKeyText),
           ArtifactOf(FinancialModel, FinanceText(Obj(<<>>))) }
    [] section = "risk_analysis" ->
         { ArtifactOf(RiskAnalysis, DescribedRiskText), ArtifactOf(RiskAnalysis, UndescribedRiskText),
           ArtifactOf(RiskAnalysis, RiskText(Arr(<<>>))) }
    [] OTHER ->
         { generate_from_agents(ArtifactOf(FinancialModel, RoiOnlyText),
                                ArtifactOf(StrategyOutput, GoodStrategyText),
                                ArtifactOf(ExecutionPlan, GoodOpsText)).val } ]

InitStitch ==
  /\ pc = "caller"
  /\ llm \in {CHOOSE o \in SetupOutcomes : o.use_ollama}
  /\ client_input = Null
  /\ frame = NoMap
  /\ sections = NoMap
  /\ report = Null
  /\ saved = Null
  /\ clock = 0
  /\ last_call = <<>>
  /\ issued = <<>>
  /\ builds = 0
  /\ exit_status = -1
  /\ error_reported = FALSE
  /\ aborted_by = ""
  /\ all_illformed = TRUE
  /\ answers = NoMap
  /\ call = [fn |-> "ReportStitcher", done |-> TRUE]
  /\ outcome = Return(Null)

\* add_discovery .. add_kpi_metrics: the artifact is stored under its key.
AddSection ==
  /\ \E n \in SectionNames : \E artifact \in Artifacts[n] :
       /\ sections' = (n :> artifact) @@ sections
       /\ call' = [fn |-> "add", done |-> TRUE]
       /\ outcome' = Return(Null)
  /\ UNCHANGED <<pc, llm, client_input, frame, report, saved, clock, last_call, issued, builds,
                 exit_status, error_reported, aborted_by, all_illformed, answers>>

SummaryCall ==
  /\ call' = [fn |-> "generate_executive_summary", done |-> TRUE]
  /\ outcome' = Return(generate_executive_summary(sections))
  /\ UNCHANGED <<pc, llm, client_input, frame, sections, report, saved, clock, last_call,
                 issued, builds, exit_status, error_reported, aborted_by, all_illformed, answers>>

BuildCall ==
  /\ call' = [fn |-> "build_full_report", done |-> TRUE]
  /\ outcome' = build_full_report(sections, clock)
  /\ UNCHANGED <<pc, llm, client_input, frame, sections, report, saved, clock, last_call,
                 issued, builds, exit_status, error_reported, aborted_by, all_illformed, answers>>

ToDictCall ==
  /\ call' = [fn |-> "to_dict", done |-> TRUE]
  /\ outcome' = to_dict(sections, clock)
  /\ UNCHANGED <<pc, llm, client_input, frame, sections, report, saved, clock, last_call,
                 issued, builds, exit_status, error_reported, aborted_by, all_illformed, answers>>

NextStitch == AddSection \/ SummaryCall \/ BuildCall \/ ToDictCall

SpecStitch == InitStitch /\ [][NextStitch]_vars

\* ------------------------------------------------------------------------
\* Operations, Finance and Risk, run in any order
\* ------------------------------------------------------------------------
\* The three stages that follow Strategy, and the place of the first of them.
Downstream == {"ops", "finance", "risk"}
FirstDownstream == CHOOSE i \in 1..Len(Stages) : Stages[i] = "ops"

\* What a backend may answer a downstream stage with: None, prose, an empty
\* object, or an object of the stage's schema.
DownstreamResponses(stage) ==
  CASE stage = "ops" -> {Null, Str(ProseText), Str(GoodOpsText)}
    [] stage = "finance" -> {Str(EmptyObjectText), Str(ProseText), Str(RoiOnlyText)}
    [] OTHER -> {Null, Str(ProseText), Str(DescribedRiskText)}

\* Discovery, Market and Strategy have run; the responses of the three
\* remaining generation calls are fixed.
InitCommute ==
  /\ pc = "downstream"
  /\ llm \in {CHOOSE o \in SetupOutcomes : o.use_ollama}
  /\ client_input \in {ExampleClient, OtherClient}
  /\ \E d \in DiscoverySamples : \E t \in {ProseText, GoodStrategyText} :
       LET m == MarketAgent_analyze(ExampleClient, d, Str(ProseText)).val
           st == StrategyAgent_analyze(ExampleClient, d, m, Str(t)).val
       IN /\ frame = ("discovery" :> d @@ "market" :> m @@ "strategy" :> st)
          /\ sections = ("discovery" :> d @@ "market_analysis" :> m @@ "strategy" :> st)
  /\ report = Null
  /\ saved = Null
  /\ clock = 0
  /\ last_call = <<>>
  /\ issued = <<>>
  /\ builds = 0
  /\ exit_status = -1
  /\ error_reported = FALSE
  /\ aborted_by = ""
  /\ all_illformed = TRUE
  /\ answers = NoMap
  /\ \E ops \in DownstreamResponses("ops") : \E finance \in DownstreamResponses("finance") :
     \E risk \in DownstreamResponses("risk") :
       call = [fn |-> "downstream", done |-> FALSE,
               responses |-> [ops |-> ops, finance |-> finance, risk |-> risk]]
  /\ outcome = Null

\* A downstream stage's generation call is issued.
StartStage ==
  /\ pc = "downstream"
  /\ \E stage \in Downstream :
       /\ \A i \in 1..Len(issued) : issued[i] # stage
       /\ issued' = Append(issued, stage)
  /\ UNCHANGED <<pc, llm, client_input, frame, sections, report, saved, clock, last_call,
                 builds, exit_status, error_reported, aborted_by, all_illformed, answers,
                 call, outcome>>

\* The rest of a started stage's analyze with the response seen replaced by
\* prose once another downstream artifact is stored.
FinishStage_SharedState(stage) ==
  /\ pc = "downstream"
  /\ \E i \in 1..Len(issued) : issued[i] = stage
  /\ StageKeys[stage].local \notin DOMAIN frame
  /\ LET Stored(artifact) ==
           IF artifact.raised
           THEN /\ pc' = "exit"
                /\ outcome' = artifact
                /\ call' = [call EXCEPT !.done = TRUE]
                /\ UNCHANGED <<frame, sections>>
           ELSE /\ frame' = PutItem(frame, StageKeys[stage].local, artifact.val)
                /\ sections' = PutItem(sections, StageKeys[stage].section, artifact.val)
                /\ UNCHANGED <<pc, outcome, call>>
     IN Stored(AgentAnalyze([ stage |-> stage, client_input |-> client_input,
                              discovery |-> frame["discovery"], market |-> frame["market"],
                              strategy |-> frame["strategy"],
                              response |-> IF \E other \in Downstream :
                                                StageKeys[other].local \in DOMAIN frame
                                           THEN Str(ProseText)
                                           ELSE call.responses[stage] ]))
  /\ UNCHANGED <<llm, client_input, report, saved, clock, last_call, issued, builds,
                 exit_status, error_reported, aborted_by, all_illformed, answers>>

\* The rest of a started stage's analyze, and the stitcher's add; an
\* exception ends the run.
FinishStage(stage) ==
  /\ pc = "downstream"
  /\ \E i \in 1..Len(issued) : issued[i] = stage
  /\ StageKeys[stage].local \notin DOMAIN frame
  /\ LET Stored(artifact) ==
           IF artifact.raised
           THEN /\ pc' = "exit"
                /\ outcome' = artifact
                /\ call' = [call EXCEPT !.done = TRUE]
                /\ UNCHANGED <<frame, sections>>
           ELSE /\ frame' = PutItem(frame, StageKeys[stage].local, artifact.val)
                /\ sections' = PutItem(sections, StageKeys[stage].section, artifact.val)
                /\ UNCHANGED <<pc, outcome, call>>
     IN Stored(AgentAnalyze([ stage |-> stage, client_input |-> client_input,
                              discovery |-> frame["discovery"], market |-> frame["market"],
                              strategy |-> frame["strategy"],
                              response |-> call.responses[stage] ]))
  /\ UNCHANGED <<llm, client_input, report, saved, clock, last_call, issued, builds,
                 exit_status, error_reported, aborted_by, all_illformed, answers>>

FinishOps == FinishStage("ops")
FinishFinance == FinishStage("finance")
FinishRisk == FinishStage("risk")

\* The three artifacts exist: the KPI metrics are derived and the report built.
FinishReport ==
  /\ pc = "downstream"
  /\ \A stage \in Downstream : StageKeys[stage].local \in DOMAIN frame
  /\ LET Built(all) ==
           /\ sections' = all
           /\ frame' = PutItem(frame, "kpi", all["kpi_dashboard"])
           /\ outcome' = build_full_report(all, clock)
           /\ report' = build_full_report(all, clock).val
     IN Built(PutItem(sections, "kpi_dashboard",
                      generate_from_agents(frame["financial"], frame["strategy"],
                                           frame["execution"]).val))
  /\ builds' = builds + 1
  /\ pc' = "done"
  /\ call' = [call EXCEPT !.done = TRUE]
  /\ UNCHANGED <<llm, client_input, saved, clock, last_call, issued, exit_status,
                 error_reported, aborted_by, all_illformed, answers>>

NextCommute == StartStage \/ FinishOps \/ FinishFinance \/ FinishRisk \/ FinishReport

SpecCommute == InitCommute /\ [][NextCommute]_vars

\* ------------------------------------------------------------------------
\* Properties
\* ------------------------------------------------------------------------
\* v is an instance of the schema with every declared field present.
InstanceOf(v, schema) == v.k = "model" /\ DOMAIN v.d = model_fields(schema)

\* C1: validate_and_fix_json, for every data (None, a mapping with missing
\* fields, a mapping with wrongly shaped fields) and every stage schema, returns
\* an instance with every field of the schema present and never raises.
C1_ValidatorTotal ==
  (call.fn = "validate_and_fix_json" /\ call.done /\ ~call.strict)
    => (~outcome.raised /\ InstanceOf(outcome.val, call.schema))

\* C2: validate_and_fix_json given {"risks": "single risk text"} against
\* RiskAnalysis returns risks = ["single risk text"] and the three absent
\* fields empty.
C2_RiskScalarWrapped ==
  (call.fn = "validate_and_fix_json" /\ call.done /\ ~call.strict
     /\ call.schema = RiskAnalysis /\ call.data = Dict("risks" :> S("single risk text")))
    => (~outcome.raised
          /\ outcome.val.d = ( "risks" :> List(<<S("single risk text")>>)
                            @@ "mitigations" :> EmptyList
                            @@ "compliance_flags" :> EmptyList
                            @@ "legal_considerations" :> EmptyList ))

\* C3: whenever extract_json recovers nothing from the response,
\* DiscoveryAgent.analyze returns an artifact whose problem_statement is the
\* client's goal.
C3_FallbackProblemIsGoal ==
  (call.fn = "analyze" /\ call.done /\ call.stage = "discovery"
     /\ extract_json(call.response) = Return(Null))
    => (~outcome.raised
          /\ outcome.val.d["problem_statement"] = call.client_input.d["goal"])

\* The report holds the summary, the six stage artifacts and the KPI artifact.
CompleteReport(r) ==
  /\ r.k = "model"
  /\ DOMAIN r.d = SectionNames \cup {"executive_summary", "generated_at"}
  /\ r.d["executive_summary"].k = "str"
  /\ InstanceOf(r.d["discovery"], DiscoveryOutput)
  /\ InstanceOf(r.d["market_analysis"], MarketAnalysis)
  /\ InstanceOf(r.d["strategy"], StrategyOutput)
  /\ InstanceOf(r.d["execution_plan"], ExecutionPlan)
  /\ InstanceOf(r.d["financial_model"], FinancialModel)
  /\ InstanceOf(r.d["risk_analysis"], RiskAnalysis)
  /\ InstanceOf(r.d["kpi_dashboard"], KPIMetrics)

\* C4: when every generation call so far has returned ill-formed text, no
\* phase has ended the run, and once the sixth has returned generate_report
\* goes on to return a FullReport with the summary and all seven artifacts.
C4_IllFormedStillCompletes ==
  (all_illformed /\ issued # <<>> /\ aborted_by # "transport")
    => /\ pc # "exit"
       /\ Len(issued) = 6 /\ pc \notin {"kpi", "build"} => CompleteReport(report)

\* A run in which all six responses were ill-formed has finished.
C4_Witness == all_illformed /\ Len(issued) = 6 /\ pc = "done" /\ report # Null

\* C5: for each stage and every value the generation client can return
\* (prose, empty text, None, JSON that is not an object, an object with
\* wrongly shaped fields), analyze returns an artifact of the stage's schema
\* and does not raise.
C5_AnalyzeNeverRaises ==
  (call.fn = "analyze" /\ call.done)
    => (~outcome.raised /\ InstanceOf(outcome.val, SchemaOf(call.stage)))

LocalVars == <<"discovery", "market", "strategy", "execution", "financial", "risk">>

\* C7: once a stage's generation call has failed, the run has exited with
\* status 1 after reporting the error, the report was never built and nothing
\* was saved, the failing call is the last one issued, and nothing happens
\* afterwards.
C7_TransportFailureEndsRun ==
  /\ [](aborted_by = "transport" =>
          /\ pc = "exit" /\ exit_status = 1 /\ error_reported
          /\ builds = 0 /\ report = Null /\ saved = Null
          /\ issued # <<>> /\ issued = SubSeq(Stages, 1, Len(issued))
          /\ DOMAIN frame = {LocalVars[i] : i \in 1..(Len(issued) - 1)})
  /\ [][aborted_by = "transport" => UNCHANGED vars]_vars

\* The strategy call failed after two stages had completed.
C7_Witness == aborted_by = "transport" /\ Len(issued) = 3 /\ DOMAIN sections # {}

\* C8 as stated: an empty business, industry, goal or constraints ends the run
\* with an error before any generation call.
C8_EmptyRequiredEndsRun ==
  (\E n \in DOMAIN answers \cap {"business", "industry", "goal", "constraints"} :
      answers[n] = <<>>)
    => (pc = "exit" /\ exit_status = 1 /\ error_reported /\ issued = <<>>)

\* C8 amended: an empty business, industry or goal ends the run with an error
\* before any stage runs and any generation call is made; empty constraints
\* do not end it, they become "None specified".
C8_EmptyBusinessIndustryGoalEndsRun ==
  /\ (\E n \in DOMAIN answers \cap {"business", "industry", "goal"} : answers[n] = <<>>)
       => (pc = "exit" /\ exit_status = 1 /\ error_reported /\ aborted_by = "input"
             /\ issued = <<>> /\ client_input = Null /\ sections = NoMap)
  /\ (client_input # Null /\ answers["constraints"] = <<>>)
       => client_input.d["constraints"] = S("None specified")
  /\ client_input # Null
       => \A n \in {"business", "industry", "goal", "constraints"} :
            client_input.d[n].s # <<>> /\ client_input.d[n].s = Strip(client_input.d[n].s)

\* The goal was left empty and the run ended there.
C8_Witness ==
  "goal" \in DOMAIN answers /\ answers["goal"] = <<>> /\ pc = "exit" /\ exit_status = 1

\* The local variables of generate_report a stage's analyze is given.
Consumes(stage) ==
  CASE stage = "discovery" -> {}
    [] stage = "market" -> {"discovery"}
    [] stage = "strategy" -> {"discovery", "market"}
    [] OTHER -> {"discovery", "strategy"}

\* C9: a stage's generation call is issued only when every artifact it
\* consumes has been returned, in the order Discovery, Market, Strategy and
\* then Operations, Finance, Risk; the KPI metrics are derived only when all
\* six stage artifacts exist, and the report is built only when the metrics
\* exist.
C9_DependenciesPrecede ==
  [][ /\ issued' # issued =>
           /\ issued' = Append(issued, Stages[Len(issued) + 1])
           /\ Consumes(issued'[Len(issued')]) \subseteq DOMAIN frame
      /\ ("kpi" \in DOMAIN frame' /\ "kpi" \notin DOMAIN frame) =>
           /\ Len(issued) = 6
           /\ {"discovery", "market", "strategy", "execution", "financial", "risk"}
                \subseteq DOMAIN frame
      /\ builds' # builds => "kpi" \in DOMAIN frame /\ "kpi_dashboard" \in DOMAIN sections
    ]_vars

\* The whole pipeline has run.
C9_Witness == pc = "done" /\ Len(issued) = 6 /\ builds = 2

\* C10: the executive summary is, in this order, the problem statement, the
\* recommendation, the ROI figure whenever roi_model has an roi entry, and
\* the first risk's description whenever there is a risk.
C10_SummaryParts ==
  report # Null =>
    report.d["executive_summary"] =
      Str(Join(
        << <<"**Problem Statement**: ">> \o report.d["discovery"].d["problem_statement"].s,
           <<"**Strategic Recommendation**: ">> \o report.d["strategy"].d["recommendation"].s >>
        \o (IF "roi" \in DOMAIN report.d["financial_model"].d["roi_model"].d
            THEN << <<"**Expected ROI**: ">>
                     \o ToStr(report.d["financial_model"].d["roi_model"].d["roi"]).s >>
            ELSE <<>>)
        \o (IF report.d["risk_analysis"].d["risks"].e # <<>>
            THEN << <<"**Primary Risk**: ">>
                     \o ToStr(Get(report.d["risk_analysis"].d["risks"].e[1].d, "description",
                                  S("N/A"))).s >>
            ELSE <<>>),
        ParaSep))

\* C11: extract_json returns a mapping or None for every text: it neither
\* raises nor returns a list, a number, a string or a boolean.
C11_MappingOrNone ==
  (call.fn = "extract_json" /\ call.done) =>
    (~outcome.raised /\ outcome.val.k \in {"dict", "null"})

\* The bracket-depth matcher: the index of the brace closing the one opened
\* just before t[j] (0 when it is never closed), and the first balanced
\* brace-delimited substring of t from t[i] on (<<>> when there is none).
RECURSIVE BalancedEnd(_, _, _)
BalancedEnd(t, j, depth) ==
  IF j > Len(t) THEN 0
  ELSE IF t[j] = LBrace THEN BalancedEnd(t, j + 1, depth + 1)
  ELSE IF t[j] = RBrace THEN (IF depth = 0 THEN j ELSE BalancedEnd(t, j + 1, depth - 1))
  ELSE BalancedEnd(t, j + 1, depth)
RECURSIVE FirstBalanced(_, _)
FirstBalanced(t, i) ==
  IF i > Len(t) THEN <<>>
  ELSE IF t[i] = LBrace /\ BalancedEnd(t, i + 1, 0) # 0
       THEN SubSeq(t, i, BalancedEnd(t, i + 1, 0))
       ELSE FirstBalanced(t, i + 1)

\* C12: when the whole text does not parse and holds no fenced block,
\* extract_json returns the parse of the first balanced brace-delimited
\* substring, whatever the depth of nesting.
C12_OutermostBalanced ==
  ( /\ call.fn = "extract_json" /\ call.done
    /\ json_loads(Strip(call.text.s)).raised
    /\ \A i \in 1..Len(call.text.s) : call.text.s[i] # Fence
    /\ FirstBalanced(call.text.s, 1) # <<>>
    /\ ~json_loads(FirstBalanced(call.text.s, 1)).raised )
  => outcome = json_loads(FirstBalanced(call.text.s, 1))

\* C13: the three strategies are tried in order and the first success wins:
\* the parse of the whole trimmed text; else the parse of the fenced block
\* (the first match of the fenced pattern); else the result of the brace scan.
C13_FirstSuccessWins ==
  (call.fn = "extract_json" /\ call.done) =>
    outcome =
      IF ~json_loads(Strip(call.text.s)).raised THEN json_loads(Strip(call.text.s))
      ELSE IF FirstFenceMatch(call.text.s, 1) # <<>>
              /\ ~json_loads(FirstFenceMatch(call.text.s, 1)).raised
           THEN json_loads(FirstFenceMatch(call.text.s, 1))
           ELSE FirstParsing(BraceMatches(call.text.s, 1))

\* The fenced block won although the brace scan would have found another
\* object first.
C13_Witness ==
  /\ call.fn = "extract_json" /\ call.done
  /\ call.text = Str(ObjectThenFencedText)
  /\ outcome = Return(Dict("a" :> Num(<<"1">>)))
  /\ FirstParsing(BraceMatches(call.text.s, 1)) = Return(Dict("x" :> Num(<<"1">>)))

\* C14: for one fenced block, tagged or not, holding a valid object and
\* followed by extra text, extract_json returns exactly the mapping in the block.
C14_FencedObjectExtracted ==
  (call.fn = "extract_json" /\ call.done) =>
    \A c \in FencedCases : call.text = Str(c.text) => outcome = Return(c.value)

\* The untagged block holding the object nested to depth three has been
\* extracted whole.
C14_Witness ==
  /\ call.fn = "extract_json" /\ call.done
  /\ \E c \in FencedCases :
       /\ call.text = Str(c.text)
       /\ c.text[2] # Tag
       /\ c.value = outcome.val
       /\ outcome.val = Dict("a" :> Dict("b" :> Dict("c" :> Num(<<"1">>))))


\* extract_json finds nothing in the response text.
ExtractionFails(response) == response.k = "str" /\ extract_json(response) = Return(Null)

\* C15: for every stage, analyze called with the same client input and the
\* same upstream artifacts returns the same artifact for any two responses
\* that both fail extraction.
C15_FallbackIgnoresResponse ==
  (call.fn = "analyze" /\ call.done /\ ExtractionFails(call.response)) =>
    \A other \in SingleCallResponses(call.stage) :
      ExtractionFails(other) => AgentAnalyze([call EXCEPT !.response = other]) = outcome

C17_AccumulateOnly ==
  [][\A n \in DOMAIN sections : n \in DOMAIN sections' /\ sections'[n] = sections[n]]_vars

\* C18: in one run the FullReport is built exactly once, and the creation
\* timestamp of the saved document is the one of the report generate_report
\* returned.
C18_BuiltOnceTimestampKept ==
  pc = "done" =>
    (builds = 1 /\ saved.d["generated_at"] = Str(report.d["generated_at"].s))

\* C19: the document save_report writes holds the sections of the report
\* passed to it.
C19_SavesItsArgument ==
  (call.fn = "save_report" /\ call.done /\ ~outcome.raised) =>
    \A n \in SectionNames : saved.d[n] = Dump(call.report.d[n])

\* The empty value of a declared shape: empty string, sequence or mapping.
EmptyOfShape(a) ==
  CASE a = "str" -> EmptyStr
    [] Origin(a) = "list" -> EmptyList
    [] Origin(a) = "dict" -> EmptyDict
    [] OTHER -> Null

\* C20: validate_and_fix_json, given a mapping in which some required fields
\* are absent and every present field is well shaped, returns an instance in
\* which each present field keeps its value and each absent field holds its
\* default or, without one, the empty value of its declared shape.
C20_AbsentFieldsDefaulted ==
  ( /\ call.fn = "validate_and_fix_json" /\ call.done /\ ~call.strict
    /\ call.data.k = "dict"
    /\ DOMAIN call.data.d \subseteq model_fields(call.schema)
    /\ \A n \in DOMAIN call.data.d : Validates(FieldOf(call.schema, n).annotation, call.data.d[n])
    /\ \E n \in model_fields(call.schema) \ DOMAIN call.data.d :
         FieldOf(call.schema, n).default = Undefined )
  => ( /\ ~outcome.raised
       /\ InstanceOf(outcome.val, call.schema)
       /\ \A n \in model_fields(call.schema) :
            outcome.val.d[n] =
              IF n \in DOMAIN call.data.d THEN call.data.d[n]
              ELSE IF FieldOf(call.schema, n).default # Undefined
                   THEN FieldOf(call.schema, n).default
                   ELSE EmptyOfShape(FieldOf(call.schema, n).annotation) )

\* The statements of the summary, each with the section it is drawn from.
StatementSources ==
  ( "**Problem Statement**: " :> "discovery"
 @@ "**Strategic Recommendation**: " :> "strategy"
 @@ "**Expected ROI**: " :> "financial_model"
 @@ "**Primary Risk**: " :> "risk_analysis" )

\* C21: generate_executive_summary returns a string for every set of sections
\* present, the empty string when there is none; a statement is in it only if
\* the section it is drawn from is present; no missing section makes it raise.
C21_SummaryOfAnySections ==
  (call.fn = "generate_executive_summary" /\ call.done) =>
    /\ ~outcome.raised
    /\ outcome.val.k = "str"
    /\ (sections = NoMap => outcome.val = EmptyStr)
    /\ \A label \in DOMAIN StatementSources :
         (\E i \in 1..Len(outcome.val.s) : outcome.val.s[i] = label)
           => StatementSources[label] \in DOMAIN sections

\* The summary was asked for with the discovery and financial sections
\* missing, and a risk statement is in it.
C21_Witness ==
  /\ call.fn = "generate_executive_summary" /\ call.done
  /\ DOMAIN sections = {"strategy", "risk_analysis"}
  /\ \E i \in 1..Len(outcome.val.s) : outcome.val.s[i] = "**Primary Risk**: "

\* C29: build_full_report and to_dict return a report only when all seven
\* sections have been added; with a section missing they fail; and they
\* leave the stored sections as they were.
C29_ReportNeedsEverySection ==
  /\ []( (call.fn \in {"build_full_report", "to_dict"} /\ call.done) =>
           /\ outcome.raised <=> ~(SectionNames \subseteq DOMAIN sections)
           /\ ~outcome.raised =>
                \A n \in SectionNames :
                  outcome.val.d[n] = IF call.fn = "to_dict" THEN Dump(sections[n]) ELSE sections[n] )
  /\ [][call'.fn \in {"build_full_report", "to_dict"} => sections' = sections]_vars

\* A report was asked for with the market section alone missing.
C29_Witness ==
  /\ call.fn \in {"build_full_report", "to_dict"} /\ call.done
  /\ outcome.raised
  /\ DOMAIN sections = SectionNames \ {"market_analysis"}

\* C22: at most one generation call is outstanding at any point: a step issues
\* one call at most, every call issued before it has returned and its artifact
\* is in the stitcher, and within a call the local backend is asked only
\* after the request to the remote one has failed.
C22_OneCallAtATime ==
  [][issued' # issued =>
       /\ Len(issued') = Len(issued) + 1
       /\ \A i \in 1..Len(issued) :
            /\ StageKeys[issued[i]].section \in DOMAIN sections
            /\ StageKeys[issued[i]].local \in DOMAIN frame
       /\ \A i \in 1..Len(last_call') :
            i < Len(last_call') => (last_call'[i].backend = "api" /\ last_call'[i].failed)
    ]_vars

\* Every stage has made its call, the last one through both backends.
C22_Witness ==
  /\ pc = "kpi"
  /\ Len(issued) = Len(Stages)
  /\ Len(last_call) > 1

\* C26: every request a stage's generation call sends asks for structured
\* output: through the response-format option on the remote backend, through
\* the instruction appended to the prompt on the local one.
C26_StructuredOutputRequested ==
  \A i \in 1..Len(last_call) :
    /\ last_call[i].backend = "api" => last_call[i].response_format
    /\ last_call[i].backend = "local" => last_call[i].instruction
    /\ last_call[i].response_format \/ last_call[i].instruction

\* A stage's call was answered by the local backend after the remote one
\* failed, and another by the remote one.
C26_Witness ==
  /\ Len(issued) > 1
  /\ \E i \in 1..Len(last_call) : last_call[i].backend = "local" /\ ~last_call[i].failed
  /\ \E i \in 1..Len(last_call) : last_call[i].backend = "api"

\* generate_report from the Operations phase on, in the order of the code,
\* with the upstream artifacts and the responses of the run under way.
InCodeOrder ==
  RunStages([ frame |-> [n \in {"discovery", "market", "strategy"} |-> frame[n]],
              sections |-> [n \in {"discovery", "market_analysis", "strategy"} |-> sections[n]],
              raised |-> FALSE, exc |-> "" ],
            client_input,
            [i \in 1..Len(Stages) |->
               Return(IF Stages[i] \in Downstream THEN call.responses[Stages[i]] ELSE Null)],
            FirstDownstream)

\* C23: Operations, Finance and Risk commute: in whatever order and however
\* interleaved the three run, with the same client input, upstream artifacts
\* and responses, each artifact is the one the code's order gives and does
\* not depend on the Market artifact, and the final report is the same.
C23_DownstreamStagesCommute ==
  /\ \A stage \in Downstream :
       StageKeys[stage].local \in DOMAIN frame =>
         /\ StageKeys[stage].local \in DOMAIN InCodeOrder.frame =>
              frame[StageKeys[stage].local] = InCodeOrder.frame[StageKeys[stage].local]
         /\ Return(frame[StageKeys[stage].local]) =
              AgentAnalyze([ stage |-> stage, client_input |-> client_input,
                             discovery |-> frame["discovery"], market |-> Null,
                             strategy |-> frame["strategy"],
                             response |-> call.responses[stage] ])
  /\ pc = "exit" => InCodeOrder.raised
  /\ pc = "done" =>
       /\ ~InCodeOrder.raised
       /\ report = build_full_report(
                     PutItem(InCodeOrder.sections, "kpi_dashboard",
                             generate_from_agents(InCodeOrder.frame["financial"],
                                                  InCodeOrder.frame["strategy"],
                                                  InCodeOrder.frame["execution"]).val),
                     clock).val

\* The three stages ran in the reverse of the code's order, Operations
\* answering with a plan, and the report was built.
C23_Witness ==
  /\ pc = "done"
  /\ issued = <<"risk", "finance", "ops">>
  /\ call.responses["ops"] = Str(GoodOpsText)
  /\ call.responses["risk"] = Str(ProseText)

\* The fallback mapping of the stage of an analyze call.
FallbackOf(c) ==
  CASE c.stage = "discovery" -> DiscoveryAgent_parse_fallback(c.response)
    [] c.stage = "market" -> MarketAgent_parse_fallback(c.client_input, c.discovery)
    [] c.stage = "strategy" -> StrategyAgent_parse_fallback(c.client_input, c.discovery)
    [] c.stage = "ops" -> OpsAgent_parse_fallback(c.strategy)
    [] c.stage = "finance" -> FinanceAgent_parse_fallback
    [] OTHER -> RiskAgent_parse_fallback(c.client_input, c.strategy)

\* What an analyze call hands to validate_and_fix_json.
DataValidated(c) ==
  IF ~Truthy(extract_json(c.response).val) THEN FallbackOf(c) ELSE extract_json(c.response).val

\* The validator raises in an analyze call.
ValidatorRaises(c) ==
  /\ ~extract_json(c.response).raised
  /\ validate_and_fix_json(DataValidated(c), SchemaOf(c.stage), FALSE).raised

\* C24: in every stage, when validate_and_fix_json raises, analyze returns
\* normally the stage's hand-built minimal artifact, which does not depend on
\* the data that failed: for Discovery problem_statement = goal, facts_gathered
\* = [business, industry], business_model = business, target_market = "To be
\* determined" and the other lists empty; for Strategy the recommendation made
\* of the goal and the problem statement.
C24_MinimalOnValidatorError ==
  (call.fn = "analyze" /\ call.done /\ ValidatorRaises(call)) =>
    /\ ~outcome.raised
    /\ InstanceOf(outcome.val, SchemaOf(call.stage))
    /\ outcome = AgentAnalyze([call EXCEPT !.response = Str(ListText)])
    /\ call.stage = "discovery" =>
         outcome.val.d = ( "problem_statement" :> call.client_input.d["goal"]
                        @@ "key_assumptions" :> EmptyList
                        @@ "facts_gathered" :> List(<< call.client_input.d["business"],
                                                       call.client_input.d["industry"] >>)
                        @@ "questions_clarified" :> EmptyList
                        @@ "business_model" :> call.client_input.d["business"]
                        @@ "target_market" :> S("To be determined") )
    /\ call.stage = "strategy" =>
         /\ outcome.val.d["recommendation"] =
              Str(<<"Focus on achieving ">> \o call.client_input.d["goal"].s
                    \o <<" while addressing ">> \o call.discovery.d["problem_statement"].s)
         /\ outcome.val.d["strategic_options"] = EmptyList
         /\ outcome.val.d["tradeoffs"] = EmptyDict

\* Discovery's validator raised on an object with a wrongly shaped field, and
\* analyze returned.
C24_Witness ==
  /\ call.fn = "analyze" /\ call.done
  /\ call.stage = "discovery"
  /\ call.response = Str(WrongShapedText)
  /\ ValidatorRaises(call)
  /\ ~outcome.raised

\* The repair step ran in a call of validate_and_fix_json on a mapping.
Repaired == call.fn = "validate_and_fix_json" /\ call.done /\ outcome.attempts > 1

\* C25: in the repair step a present value that is not a list, for a field
\* declared as a list, becomes the one-element list holding it when it is
\* truthy and the empty list when it is falsy ("", 0, None, {}, false); a list
\* is left as it is.  When the repaired mapping validates, the instance
\* returned holds these values.
C25_ScalarWrappedIntoList ==
  Repaired =>
    \A n \in DOMAIN call.data.d \cap model_fields(call.schema) :
      Origin(FieldOf(call.schema, n).annotation) = "list" =>
        LET value == call.data.d[n]
            expected == IF value.k = "list" THEN value
                        ELSE IF value \in {EmptyStr, Null, EmptyDict, Num(<<"0">>), Bool(<<"false">>)}
                             THEN EmptyList
                             ELSE List(<<value>>)
        IN /\ _fix_common_issues(call.data, call.schema).d[n] = expected
           /\ (~outcome.raised /\ outcome.attempts = 2) => outcome.val.d[n] = expected

\* RiskAnalysis was given compliance_flags as one text, the other fields well
\* shaped: the repaired mapping validated.
C25_Witness ==
  /\ Repaired /\ ~outcome.raised
  /\ call.schema = RiskAnalysis
  /\ DOMAIN call.data.d = model_fields(RiskAnalysis)
  /\ call.data.d["compliance_flags"] = S("single risk text")
  /\ outcome.val.d["compliance_flags"] = List(<<S("single risk text")>>)

\* C27: in the repair step a present value of an optional field (market_size)
\* that is neither None nor of the inner type str is replaced by str(value);
\* it is never replaced by the field's default.  When the repaired mapping
\* validates, the instance returned holds the converted value.
C27_OptionalConverted ==
  Repaired =>
    \A n \in DOMAIN call.data.d \cap model_fields(call.schema) :
      ( /\ FieldOf(call.schema, n).annotation = "Optional[str]"
        /\ call.data.d[n].k \notin {"null", "str"} ) =>
        /\ _fix_common_issues(call.data, call.schema).d[n] = Str(Repr(call.data.d[n]))
        /\ _fix_common_issues(call.data, call.schema).d[n] # FieldOf(call.schema, n).default
        /\ (~outcome.raised /\ outcome.attempts = 2) =>
             outcome.val.d[n] = Str(Repr(call.data.d[n]))

\* MarketAnalysis was given market_size as a number: the instance holds it as
\* text.
C27_Witness ==
  /\ Repaired /\ ~outcome.raised
  /\ call.schema = MarketAnalysis
  /\ "market_size" \in DOMAIN call.data.d
  /\ call.data.d["market_size"] = Num(<<"1">>)
  /\ outcome.val.d["market_size"] = Str(<<"1">>)

\* The JSON values Python counts as false.
FalsyValues ==
  {EmptyDict, EmptyList, Num(<<"0">>), EmptyStr, Null, Bool(<<"false">>)}

\* C28: a stage treats an extracted value that is falsy ({}, [], 0, "", null,
\* false) like an extraction failure: what it returns is the validated
\* fallback mapping, never an artifact with every field empty, and outside
\* Discovery (whose fallback quotes the response) exactly what it returns for
\* a response from which nothing is extracted.
C28_FalsyExtractionIsFallback ==
  ( /\ call.fn = "analyze" /\ call.done
    /\ ~extract_json(call.response).raised
    /\ extract_json(call.response).val \in FalsyValues ) =>
    /\ outcome = validate_and_fix_json(FallbackOf(call), SchemaOf(call.stage), FALSE)
    /\ ~outcome.raised
    /\ \E n \in DOMAIN outcome.val.d : Truthy(outcome.val.d[n])
    /\ call.stage # "discovery" =>
         outcome = AgentAnalyze([call EXCEPT !.response = Str(ProseText)])

\* Finance was answered {} and returned its fallback's pricing strategy.
C28_Witness ==
  /\ call.fn = "analyze" /\ call.done
  /\ call.stage = "finance"
  /\ call.response = Str(EmptyObjectText)
  /\ ~outcome.raised
  /\ outcome.val.d["pricing_strategy"] = S("Competitive pricing based on market analysis")

\* The keys a mapping of metrics holds: those always kept, and each of the
\* others when its source field is not empty.
KeysKept(always, sources) ==
  always \cup {key \in DOMAIN sources : Truthy(sources[key])}

\* C30: the KPI operational_metrics hold milestones_30, milestones_60 and
\* milestones_90, the lengths of the three plan lists; unit_economics,
\* projections, roi, break_even, strategic_metrics and resources are present
\* exactly when their source field is not empty, and hold it; customer_metrics
\* is the empty mapping.
C30_KpiEntries ==
  "kpi" \in DOMAIN frame =>
    LET Entries(kpi, financial, strategy, execution) ==
          /\ DOMAIN kpi["operational_metrics"].d =
               KeysKept({"milestones_30", "milestones_60", "milestones_90"},
                        "resources" :> execution["resource_requirements"])
          /\ kpi["operational_metrics"].d["milestones_30"] =
               Num(<<ToString(Len(execution["plan_30_days"].e))>>)
          /\ kpi["operational_metrics"].d["milestones_60"] =
               Num(<<ToString(Len(execution["plan_60_days"].e))>>)
          /\ kpi["operational_metrics"].d["milestones_90"] =
               Num(<<ToString(Len(execution["plan_90_days"].e))>>)
          /\ "resources" \in DOMAIN kpi["operational_metrics"].d =>
               kpi["operational_metrics"].d["resources"] = execution["resource_requirements"]
          /\ kpi["revenue_metrics"].d =
               [key \in KeysKept({}, "unit_economics" :> financial["unit_economics"]
                                     @@ "projections" :> financial["revenue_projections"]) |->
                  IF key = "projections" THEN financial["revenue_projections"]
                  ELSE financial["unit_economics"]]
          /\ kpi["financial_metrics"].d =
               [key \in KeysKept({}, "roi" :> financial["roi_model"]
                                     @@ "break_even" :> financial["break_even_analysis"]) |->
                  IF key = "roi" THEN financial["roi_model"]
                  ELSE financial["break_even_analysis"]]
          /\ kpi["targets"].d =
               [key \in KeysKept({}, "strategic_metrics" :> strategy["success_metrics"]) |->
                  strategy["success_metrics"]]
          /\ kpi["customer_metrics"] = EmptyDict
    IN Entries(frame["kpi"].d, frame["financial"].d, frame["strategy"].d, frame["execution"].d)

\* The metrics were derived from a plan of two tasks in its first list and no
\* resource requirements, and from a strategy with success metrics.
C30_Witness ==
  /\ "kpi" \in DOMAIN frame
  /\ frame["kpi"].d["operational_metrics"].d["milestones_30"] = Num(<<"2">>)
  /\ "resources" \notin DOMAIN frame["kpi"].d["operational_metrics"].d
  /\ "strategic_metrics" \in DOMAIN frame["kpi"].d["targets"].d

====
